---- MODULE Spec2Model ----
(***************************************************************************)
(* Model of the Azure AI Search MCP server core                            *)
(* (src/azure_search_server_core): the query composer                      *)
(* AzureSearchClient.hybrid_search, the semantic option translators, the   *)
(* result shaper and the MCP tools that sit in front of them.              *)
(*                                                                         *)
(* Python values are encoded as follows.                                   *)
(*   None (string-typed)   NULL, a string no caller can supply             *)
(*   None (number-typed)   NoneNum = -1 (k, skip, weights are >= 0)        *)
(*   float weights         integers in tenths (10 is 1.0, 15 is 1.5)       *)
(*   dict                  a function whose DOMAIN is the set of keys      *)
(*   captions / answers    a sequence of lexical atoms ("extractive",      *)
(*                         "highlight-", "|", " ", ...); the string is     *)
(*                         their concatenation                             *)
(***************************************************************************)
EXTENDS Integers, Sequences, FiniteSets, TLC

VARIABLES
    search_client,   \* "None" when AzureSearchClient() failed at startup, else "ready"
    defaults,        \* the client's default_* attributes (process-wide)
    tool,            \* the entry point of the call in progress / last finished
    pc,              \* position of the call in progress
    args,            \* keyword arguments of the hybrid_search call in progress
    search_kwargs,   \* keyword arguments handed to search_client.search
    backend_calls,   \* invocations of search_client.search during the call
    results_page,    \* rows returned by the backend for the call
    payload,         \* what hybrid_search returned: items, count, applied
    normalized,      \* TRUE once a tool has normalized its arguments
    request,         \* the raw search and vectors arguments given to the search tool
    outcome          \* what the caller of the entry point observes

vars == <<search_client, defaults, tool, pc, args, search_kwargs,
          backend_calls, results_page, payload, normalized, request, outcome>>

-----------------------------------------------------------------------------
(* Encodings of Python values *)

NULL == "<None>"

NoneNum == -1

EmptyMap == [k \in {} |-> NULL]

Put(m, k, v) == [x \in (DOMAIN m) \cup {k} |-> IF x = k THEN v ELSE m[x]]

Update(m, n) == [x \in (DOMAIN m) \cup (DOMAIN n) |-> IF x \in DOMAIN n THEN n[x] ELSE m[x]]

Truthy(s) == s # NULL /\ s # ""

TruthyNum(n) == n # NoneNum /\ n # 0

\* str.strip() on the texts the model draws from
Strip(s) ==
    CASE s = "  " -> ""
      [] s = " firmware " -> "firmware"
      [] s = " en-US " -> "en-US"
      [] s = " generative|count-7 " -> "generative|count-7"
      [] s = " queryRewrites " -> "queryRewrites"
      [] s = " chunk " -> "chunk"
      [] OTHER -> s

\* str.lower() on the texts the model draws from
Lower(s) ==
    CASE s = "Firmware" -> "firmware"
      [] s = "ALL" -> "all"
      [] s = "All" -> "all"
      [] s = "ANY" -> "any"
      [] s = "Any" -> "any"
      [] s = "Bogus" -> "bogus"
      [] OTHER -> s

-----------------------------------------------------------------------------
(* utils.py *)

\* _coalesce over string-typed optionals: the first value that is not None
_coalesce(values) ==
    LET present == {i \in 1..Len(values) : values[i] # NULL}
    IN  IF present = {} THEN NULL
        ELSE values[CHOOSE i \in present : \A j \in present : i <= j]

\* _coalesce over number-typed optionals
_coalesce_num(values) ==
    LET present == {i \in 1..Len(values) : values[i] # NoneNum}
    IN  IF present = {} THEN NoneNum
        ELSE values[CHOOSE i \in present : \A j \in present : i <= j]

\* cleaned = [value for value in (value.strip() for value in values) if value]
Cleaned(values) ==
    LET stripped == [i \in 1..Len(values) |-> Strip(values[i])]
    IN  SelectSeq(stripped, LAMBDA v : v # "")

\* _list_to_field_value: None when nothing is left after cleaning
_list_to_field_value(values) == Cleaned(values)

RECURSIVE JoinComma(_)
JoinComma(values) ==
    IF Len(values) = 0 THEN ""
    ELSE IF Len(values) = 1 THEN values[1]
    ELSE values[1] \o "," \o JoinComma(Tail(values))

_vector_field_selector(values) ==
    IF Cleaned(values) = <<>> THEN "text_vector" ELSE JoinComma(Cleaned(values))

-----------------------------------------------------------------------------
(* Option strings (captions, answers) as sequences of lexical atoms *)

NoneAtoms == <<NULL>>

\* `if value:` on an optional option string
TruthyAtoms(value) == value # NoneAtoms /\ value # <<>>

AtomLower(a) ==
    CASE a = "HIGHLIGHT-" -> "highlight-"
      [] a = "TRUE" -> "true"
      [] a = "COUNT-" -> "count-"
      [] OTHER -> a

LowerAtoms(s) == [i \in 1..Len(s) |-> AtomLower(s[i])]

RECURSIVE LStripAtoms(_)
LStripAtoms(s) ==
    IF Len(s) > 0 /\ s[1] = " " THEN LStripAtoms(Tail(s)) ELSE s

RECURSIVE RStripAtoms(_)
RStripAtoms(s) ==
    IF Len(s) > 0 /\ s[Len(s)] = " " THEN RStripAtoms(SubSeq(s, 1, Len(s) - 1)) ELSE s

StripAtoms(s) == RStripAtoms(LStripAtoms(s))

RECURSIVE SplitPipe(_)
\* value.split("|"): always at least one segment
SplitPipe(s) ==
    LET bars == {i \in 1..Len(s) : s[i] = "|"}
    IN  IF bars = {} THEN <<s>>
        ELSE LET b == CHOOSE i \in bars : \A j \in bars : i <= j
             IN  <<SubSeq(s, 1, b - 1)>> \o SplitPipe(SubSeq(s, b + 1, Len(s)))

\* (segment.strip() for segment in value.split("|") if segment.strip())
Segments(value) ==
    LET raw == SplitPipe(value)
        stripped == [i \in 1..Len(raw) |-> StripAtoms(raw[i])]
    IN  SelectSeq(stripped, LAMBDA seg : seg # <<>>)

\* lowered.split("-", 1)[-1] of a segment whose first atom ends with the first "-"
OptionOf(lowered) == Tail(lowered)

RECURSIVE DecimalValue(_)
DecimalValue(digits) ==
    IF Len(digits) = 0 THEN 0
    ELSE 10 * DecimalValue(SubSeq(digits, 1, Len(digits) - 1))
         + (IF digits[Len(digits)] = "3" THEN 3 ELSE 5)

\* int(text): surrounding whitespace allowed, then decimal digits only
IntParses(text) ==
    LET t == StripAtoms(text)
    IN  t # <<>> /\ \A i \in 1..Len(t) : t[i] \in {"3", "5"}

IntOf(text) == DecimalValue(StripAtoms(text))

\* float(text): digits with at most one decimal literal among them
FloatParses(text) ==
    LET t == StripAtoms(text)
    IN  /\ t # <<>>
        /\ \A i \in 1..Len(t) : t[i] \in {"3", "5", "0.5"}
        /\ Cardinality({i \in 1..Len(t) : t[i] = "0.5"}) <= 1

\* the parsed float, written as its canonical literal
FloatOf(text) == StripAtoms(text)

RECURSIVE CaptionLoop(_, _, _)
\* the for loop of _parse_semantic_captions; highlight is "None", "True" or "False"
CaptionLoop(parts, caption_type, highlight) ==
    IF parts = <<>> THEN [caption_type |-> caption_type, highlight |-> highlight]
    ELSE LET part == Head(parts)
             lowered == LowerAtoms(part)
         IN  IF lowered[1] = "highlight-"
             THEN CaptionLoop(Tail(parts), caption_type,
                              IF OptionOf(lowered) = <<"true">> THEN "True" ELSE "False")
             ELSE CaptionLoop(Tail(parts), part, highlight)

\* variant: the flag reports that a highlight segment was seen, whatever its suffix
_parse_semantic_captions_flag_on_any_suffix(value) ==
    IF ~TruthyAtoms(value) THEN [payload |-> EmptyMap, highlight |-> FALSE]
    ELSE LET r == CaptionLoop(Segments(value), NoneAtoms, "None")
             p1 == IF r.caption_type # NoneAtoms
                   THEN Put(EmptyMap, "query_caption", r.caption_type)
                   ELSE EmptyMap
             p2 == IF r.highlight # "None"
                   THEN Put(p1, "query_caption_highlight_enabled", r.highlight = "True")
                   ELSE p1
         IN  [payload |-> p2, highlight |-> r.highlight # "None"]

\* returns (payload, bool(highlight))
_parse_semantic_captions(value) ==
    IF ~TruthyAtoms(value) THEN [payload |-> EmptyMap, highlight |-> FALSE]
    ELSE LET r == CaptionLoop(Segments(value), NoneAtoms, "None")
             p1 == IF r.caption_type # NoneAtoms
                   THEN Put(EmptyMap, "query_caption", r.caption_type)
                   ELSE EmptyMap
             p2 == IF r.highlight # "None"
                   THEN Put(p1, "query_caption_highlight_enabled", r.highlight = "True")
                   ELSE p1
         IN  [payload |-> p2, highlight |-> r.highlight = "True"]

\* variant: no except clause around int(...), the ValueError escapes
CountHandler_missing(text) == "propagate"

\* except ValueError around int(...) in _parse_semantic_answers
CountHandler(text) == "caught"

\* except ValueError around float(...) in _parse_semantic_answers
ThresholdHandler(text) == "caught"

RECURSIVE AnswerLoop(_, _)
\* the for loop of _parse_semantic_answers; st.raised records an escaping ValueError
AnswerLoop(parts, st) ==
    IF parts = <<>> \/ st.raised THEN st
    ELSE LET part == Head(parts)
             lowered == LowerAtoms(part)
             option == OptionOf(lowered)
         IN  IF lowered[1] = "count-"
             THEN IF IntParses(option)
                  THEN AnswerLoop(Tail(parts), [st EXCEPT !.answer_count = IntOf(option)])
                  ELSE IF CountHandler(option) = "caught"
                       THEN AnswerLoop(Tail(parts), st)
                       ELSE [st EXCEPT !.raised = TRUE]
             ELSE IF lowered[1] = "threshold-"
             THEN IF FloatParses(option)
                  THEN AnswerLoop(Tail(parts), [st EXCEPT !.answer_threshold = FloatOf(option)])
                  ELSE IF ThresholdHandler(option) = "caught"
                       THEN AnswerLoop(Tail(parts), st)
                       ELSE [st EXCEPT !.raised = TRUE]
             ELSE AnswerLoop(Tail(parts), [st EXCEPT !.answer_type = part])

\* returns the payload, or raised = TRUE when a ValueError escapes
_parse_semantic_answers(value) ==
    IF ~TruthyAtoms(value) THEN [payload |-> EmptyMap, raised |-> FALSE]
    ELSE LET r == AnswerLoop(Segments(value),
                             [answer_type |-> NoneAtoms, answer_count |-> NoneNum,
                              answer_threshold |-> NoneAtoms, raised |-> FALSE])
             p1 == IF r.answer_type # NoneAtoms
                   THEN Put(EmptyMap, "query_answer", r.answer_type)
                   ELSE EmptyMap
             p2 == IF r.answer_count # NoneNum
                   THEN Put(p1, "query_answer_count", r.answer_count)
                   ELSE p1
             p3 == IF r.answer_threshold # NoneAtoms
                   THEN Put(p2, "query_answer_threshold", r.answer_threshold)
                   ELSE p2
         IN  [payload |-> IF r.raised THEN EmptyMap ELSE p3, raised |-> r.raised]

-----------------------------------------------------------------------------
(* utils.py: _normalize_sequence on every shape of input.  A text is the     *)
(* sequence of its lexical atoms: a word, a space, a newline, a comma, a     *)
(* bracket, a double quote, the JSON literal null.  A value is None, a       *)
(* native list, a text, or another scalar; an item of a list is NoneAtoms or *)
(* the text of str(item), which is all that the casts look at.               *)

Whitespace == {" ", "\n"}

RECURSIVE LStripText(_)
LStripText(s) == IF Len(s) > 0 /\ s[1] \in Whitespace THEN LStripText(Tail(s)) ELSE s

RECURSIVE RStripText(_)
RStripText(s) ==
    IF Len(s) > 0 /\ s[Len(s)] \in Whitespace THEN RStripText(SubSeq(s, 1, Len(s) - 1)) ELSE s

\* str.strip()
StripText(s) == RStripText(LStripText(s))

RECURSIVE SplitDelimited(_)
\* re.split(r"[\n,]", s): always at least one part
SplitDelimited(s) ==
    LET cuts == {i \in 1..Len(s) : s[i] \in {",", "\n"}}
    IN  IF cuts = {} THEN <<s>>
        ELSE LET c == CHOOSE i \in cuts : \A j \in cuts : i <= j
             IN  <<SubSeq(s, 1, c - 1)>> \o SplitDelimited(SubSeq(s, c + 1, Len(s)))

RECURSIVE JsonPieces(_, _, _)
\* the texts between the commas of a JSON array that stand outside string literals
JsonPieces(s, in_string, piece) ==
    IF s = <<>> THEN <<piece>>
    ELSE IF s[1] = "\"" THEN JsonPieces(Tail(s), ~in_string, Append(piece, s[1]))
    ELSE IF s[1] = "," /\ ~in_string THEN <<piece>> \o JsonPieces(Tail(s), FALSE, <<>>)
    ELSE JsonPieces(Tail(s), in_string, Append(piece, s[1]))

\* the words json.loads reads as numbers
NumberWords == {"60", "40"}

\* one element of the array: a string literal (no raw newline inside), null or a
\* number; anything else makes json.loads raise JSONDecodeError
JsonValue(piece) ==
    LET p == StripText(piece)
    IN  IF /\ Len(p) >= 2
           /\ p[1] = "\"" /\ p[Len(p)] = "\""
           /\ \A i \in 2..(Len(p) - 1) : p[i] \notin {"\"", "\n"}
        THEN [ok |-> TRUE, item |-> SubSeq(p, 2, Len(p) - 1)]
        ELSE IF p = <<"null">> THEN [ok |-> TRUE, item |-> NoneAtoms]
        ELSE IF Len(p) = 1 /\ p[1] \in NumberWords THEN [ok |-> TRUE, item |-> p]
        ELSE [ok |-> FALSE, item |-> NoneAtoms]

\* json.loads of a text that starts with "[" and ends with "]" (no nested array in
\* the model's texts): the items when it decodes to a list
JsonArray(stripped) ==
    LET inner == SubSeq(stripped, 2, Len(stripped) - 1)
        pieces == JsonPieces(inner, FALSE, <<>>)
        values == [i \in 1..Len(pieces) |-> JsonValue(pieces[i])]
    IN  IF StripText(inner) = <<>> THEN [ok |-> TRUE, items |-> <<>>]
        ELSE IF \A i \in 1..Len(values) : values[i].ok
        THEN [ok |-> TRUE, items |-> [i \in 1..Len(values) |-> values[i].item]]
        ELSE [ok |-> FALSE, items |-> <<>>]

IntWord(w) ==
    CASE w = "60" -> 60
      [] w = "40" -> 40
      [] OTHER -> NoneNum

\* the casts of lines 53-62 applied to str(item): str(item).strip(), and
\* int(str(item).strip()) with NoneNum standing for its ValueError
Cast(cast, item) ==
    IF cast = "str" THEN StripText(item)
    ELSE IF Len(StripText(item)) = 1 THEN IntWord(StripText(item)[1]) ELSE NoneNum

\* [cast(item) for item in items if item is not None]
CastItems(cast, items) ==
    LET kept == SelectSeq(items, LAMBDA item : item # NoneAtoms)
        cast_items == [i \in 1..Len(kept) |-> Cast(cast, kept[i])]
    IN  [raised |-> cast = "int" /\ \E i \in 1..Len(cast_items) : cast_items[i] = NoneNum,
         items |-> cast_items]

\* lines 33-46 without the JSON attempt: the text is always split on its delimiters
SplitOnly(stripped, cast) ==
    LET parts == SplitDelimited(stripped)
    IN  CastItems(cast, [i \in 1..Len(SelectSeq(parts, LAMBDA part : StripText(part) # <<>>)) |->
                           StripText(SelectSeq(parts, LAMBDA part : StripText(part) # <<>>)[i])])

\* variant: a text is never read as a JSON array
_normalize_text_without_json(stripped, cast) == SplitOnly(stripped, cast)

\* lines 33-48: a non-blank text
_normalize_text(stripped, cast) ==
    IF /\ stripped[1] = "[" /\ stripped[Len(stripped)] = "]"
       /\ Len(stripped) >= 2
       /\ JsonArray(stripped).ok
    THEN CastItems(cast, JsonArray(stripped).items)
    ELSE SplitOnly(stripped, cast)

\* _normalize_sequence, lines 20-50
_normalize_sequence(value, cast) ==
    IF value.kind = "none" THEN [raised |-> FALSE, items |-> <<>>]
    ELSE IF value.kind = "list" THEN CastItems(cast, value.items)
    ELSE IF value.kind = "str"
    THEN IF StripText(value.text) = <<>> THEN [raised |-> FALSE, items |-> <<>>]
         ELSE _normalize_text(StripText(value.text), cast)
    ELSE CastItems(cast, <<value.item>>)

RECURSIVE SplitLines(_)
\* value.splitlines()
SplitLines(s) ==
    LET cuts == {i \in 1..Len(s) : s[i] = "\n"}
    IN  IF cuts = {} THEN <<s>>
        ELSE LET c == CHOOSE i \in cuts : \A j \in cuts : i <= j
             IN  <<SubSeq(s, 1, c - 1)>> \o SplitLines(SubSeq(s, c + 1, Len(s)))

-----------------------------------------------------------------------------
(* client.py: AzureSearchClient.hybrid_search, the values it resolves.     *)
(* a is the call's keyword arguments, d the client's default_* attributes. *)
(* Optional sequences encode None as the empty sequence (both are falsy).  *)

\* the messages of the five ValueErrors (the backticks of the source text are left out)
ERR_INPUT == "Provide either a non-empty search query, at least one vector descriptor, or both."

ERR_SEMANTIC_CONFIGURATION == "Semantic configuration name is required. Provide it via the semantic_configuration parameter or set AZURE_SEARCH_SEMANTIC_CONFIGURATION."

ERR_SEARCH_FIELDS == "Search fields are required for lexical queries. Provide them via the search_fields parameter or set AZURE_SEARCH_SEARCH_FIELDS."

ERR_SEARCH_MODE == "search_mode must be either 'any' or 'all'."

ERR_QUERY_LANGUAGE == "Query language is required for semantic queries. Provide query_language or set AZURE_SEARCH_QUERY_LANGUAGE."

ValidationErrors ==
    {ERR_INPUT, ERR_SEMANTIC_CONFIGURATION, ERR_SEARCH_FIELDS, ERR_SEARCH_MODE, ERR_QUERY_LANGUAGE}

lexical_query(a) == Strip(IF a.search_text = NULL THEN "" ELSE a.search_text)

has_lexical(a) == lexical_query(a) # ""

\* variant: the non-blank texts are kept as given, untrimmed
normalized_vector_texts_untrimmed(a) ==
    SelectSeq(a.vector_texts, LAMBDA text : Truthy(text) /\ Strip(text) # "")

normalized_vector_texts(a) ==
    LET kept == SelectSeq(a.vector_texts, LAMBDA text : Truthy(text) /\ Strip(text) # "")
    IN  [i \in 1..Len(kept) |-> Strip(kept[i])]

\* variant: blank vector texts count as vectors
has_vectors_counting_blanks(a) == a.vector_texts # <<>>

has_vectors(a) == normalized_vector_texts(a) # <<>>

effective_semantic_configuration(a, d) ==
    _coalesce(<<a.semantic_configuration, d.default_semantic_configuration>>)

effective_search_fields(a, d) ==
    IF a.search_fields # <<>> THEN a.search_fields ELSE d.default_search_fields

effective_vector_fields(a, d) ==
    LET chosen == IF a.vector_fields # <<>> THEN a.vector_fields ELSE d.default_vector_fields
    IN  IF has_vectors(a) /\ chosen = <<>> THEN <<"text_vector">> ELSE chosen

effective_select_fields(a, d) ==
    IF a.select_fields # <<>> THEN a.select_fields ELSE d.default_select_fields

effective_query_type(a, d) ==
    IF Truthy(a.query_type) THEN a.query_type ELSE d.default_query_type

\* value.strip() if isinstance(value, str) and value.strip() else default
StrippedOrDefault(value, default) ==
    IF value # NULL /\ Strip(value) # "" THEN Strip(value) ELSE default

\* variant: the process default language is ignored
effective_query_language_call_only(a, d) == StrippedOrDefault(a.query_language, NULL)

effective_query_language(a, d) == StrippedOrDefault(a.query_language, d.default_query_language)

effective_query_rewrites(a, d) == StrippedOrDefault(a.query_rewrites, d.default_query_rewrites)

effective_debug(a, d) == StrippedOrDefault(a.debug, d.default_debug)

\* (search_mode or self.default_search_mode or "all").lower()
requested_search_mode(a, d) ==
    Lower(IF Truthy(a.search_mode) THEN a.search_mode
          ELSE IF Truthy(d.default_search_mode) THEN d.default_search_mode
          ELSE "all")

\* variant: no override for semantic queries
effective_search_mode_without_override(a, d) == requested_search_mode(a, d)

\* the override of lines 182-183
effective_search_mode(a, d) ==
    IF /\ effective_query_type(a, d) = "semantic"
       /\ Truthy(effective_query_rewrites(a, d))
       /\ requested_search_mode(a, d) # "any"
    THEN "any"
    ELSE requested_search_mode(a, d)

effective_vector_default_k(a, d) ==
    _coalesce_num(<<a.vector_default_k, d.default_vector_k, 60>>)

effective_vector_default_weight(a, d) ==
    _coalesce_num(<<a.vector_default_weight, d.default_vector_weight, 10>>)

\* variant: a shorter list is not extended by its last value
Candidate_without_reuse(supplied, idx) ==
    IF idx <= Len(supplied) THEN supplied[idx] ELSE NoneNum

\* candidate_k / candidate_weight for position idx (1-based) of the supplied list
Candidate(supplied, idx) ==
    IF supplied = <<>> THEN NoneNum
    ELSE IF idx <= Len(supplied) THEN supplied[idx]
    ELSE supplied[Len(supplied)]

\* candidate or default
OrDefault(candidate, default) == IF TruthyNum(candidate) THEN candidate ELSE default

resolved_vector_ks(a, d) ==
    IF ~has_vectors(a) THEN <<>>
    ELSE [idx \in 1..Len(normalized_vector_texts(a)) |->
            OrDefault(Candidate(a.vector_ks, idx), effective_vector_default_k(a, d))]

resolved_vector_weights(a, d) ==
    IF ~has_vectors(a) THEN <<>>
    ELSE [idx \in 1..Len(normalized_vector_texts(a)) |->
            OrDefault(Candidate(a.vector_weights, idx), effective_vector_default_weight(a, d))]

per_vector_rewrites(a, d, idx) ==
    LET given == IF idx <= Len(a.vector_rewrites) THEN a.vector_rewrites[idx] ELSE NULL
        text == normalized_vector_texts(a)[idx]
    IN  IF /\ ~Truthy(given)
           /\ effective_query_type(a, d) = "semantic"
           /\ Truthy(effective_query_rewrites(a, d))
           /\ has_lexical(a)
           /\ Lower(text) = Lower(lexical_query(a))
        THEN effective_query_rewrites(a, d)
        ELSE given

vector_field_value(a, d) ==
    IF has_vectors(a) THEN _vector_field_selector(effective_vector_fields(a, d)) ELSE NULL

\* the VectorizableTextQuery objects
vector_queries(a, d) ==
    IF ~has_vectors(a) THEN <<>>
    ELSE [idx \in 1..Len(normalized_vector_texts(a)) |->
            [text |-> normalized_vector_texts(a)[idx],
             fields |-> vector_field_value(a, d),
             k_nearest_neighbors |-> resolved_vector_ks(a, d)[idx],
             weight |-> resolved_vector_weights(a, d)[idx],
             query_rewrites |-> per_vector_rewrites(a, d, idx)]]

\* a facets value: None, a native list of facet expressions, or a text; a facet
\* expression is a text of atoms such as <<"Location", ",", "count:5">>
NoFacets == [kind |-> "none"]

FacetList(items) == [kind |-> "list", items |-> items]

\* the facet expressions of a list: None dropped, each expression trimmed
FacetItems(items) ==
    LET kept == SelectSeq(items, LAMBDA f : f # NoneAtoms)
    IN  [i \in 1..Len(kept) |-> StripText(kept[i])]

\* the non-blank lines of a text, trimmed
FacetLines(text) ==
    LET lines == SplitLines(text)
    IN  SelectSeq([i \in 1..Len(lines) |-> StripText(lines[i])], LAMBDA line : line # <<>>)

\* variant: a facets text is split like a list of names, on commas and newlines
_ensure_list_of_facets_splitting_commas(facets) ==
    IF facets.kind = "none" THEN <<>>
    ELSE IF facets.kind = "list" THEN FacetItems(facets.items)
    ELSE _normalize_sequence(facets, "str").items

\* the facets normalizer: a native list, a JSON-array text or a newline-delimited
\* text gives the list of its facet expressions, each kept whole
_ensure_list_of_facets(facets) ==
    IF facets.kind = "none" THEN <<>>
    ELSE IF facets.kind = "list" THEN FacetItems(facets.items)
    ELSE LET stripped == StripText(facets.text)
         IN  IF stripped = <<>> THEN <<>>
             ELSE IF /\ stripped[1] = "[" /\ stripped[Len(stripped)] = "]"
                     /\ JsonArray(stripped).ok
             THEN FacetItems(JsonArray(stripped).items)
             ELSE FacetLines(facets.text)

facet_values(a) == _ensure_list_of_facets(a.facets)

search_fields_value(a, d) ==
    IF has_lexical(a) THEN _list_to_field_value(effective_search_fields(a, d)) ELSE <<>>

select_value(a, d) == _list_to_field_value(effective_select_fields(a, d))

PutIf(cond, m, k, v) == IF cond THEN Put(m, k, v) ELSE m

\* variant: a non-semantic call falls back to the process defaults as well
LanguageKwargs_injecting_defaults(a, d, m) ==
    PutIf(Truthy(effective_query_rewrites(a, d)),
          PutIf(Truthy(effective_query_language(a, d)), m,
                "query_language", effective_query_language(a, d)),
          "query_rewrites", effective_query_rewrites(a, d))

\* lines 265-276: the language and rewrites arguments
LanguageKwargs(a, d, m) ==
    IF effective_query_type(a, d) = "semantic"
    THEN Put(Put(m, "query_language", effective_query_language(a, d)),
             "query_rewrites", effective_query_rewrites(a, d))
    ELSE PutIf(Truthy(a.query_rewrites),
               PutIf(Truthy(a.query_language), m, "query_language", a.query_language),
               "query_rewrites", a.query_rewrites)

\* lines 278-285: the caption and answer flags
CaptionKwargs(a, m) ==
    IF TruthyAtoms(a.captions) THEN Update(m, _parse_semantic_captions(a.captions).payload) ELSE m

AnswerKwargs(a, m) ==
    IF TruthyAtoms(a.answers) THEN Update(m, _parse_semantic_answers(a.answers).payload) ELSE m

\* the keyword arguments of search_client.search, lines 236-300
compose_search_kwargs(a, d) ==
    LET k0 == Put(Put(EmptyMap, "top", a.top),
                  "semantic_configuration_name", effective_semantic_configuration(a, d))
        k1 == PutIf(has_lexical(a),
                    PutIf(has_lexical(a), k0, "search_text", lexical_query(a)),
                    "search_mode", effective_search_mode(a, d))
        k2 == PutIf(has_vectors(a), k1, "vector_queries", vector_queries(a, d))
        k3 == PutIf(a.count, k2, "include_total_count", TRUE)
        k4 == PutIf(TruthyNum(a.skip), k3, "skip", a.skip)
        k5 == PutIf(search_fields_value(a, d) # <<>>, k4, "search_fields", search_fields_value(a, d))
        k6 == PutIf(select_value(a, d) # <<>>, k5, "select", select_value(a, d))
        k7 == PutIf(Truthy(effective_query_type(a, d)), k6, "query_type", effective_query_type(a, d))
        k8 == LanguageKwargs(a, d, k7)
        k9 == AnswerKwargs(a, CaptionKwargs(a, k8))
        k10 == PutIf(Truthy(a.filter_expression), k9, "filter", a.filter_expression)
        k11 == PutIf(a.order_by # <<>>, k10, "order_by", a.order_by)
        k12 == PutIf(facet_values(a) # <<>>, k11, "facets", facet_values(a))
        k13 == PutIf(Truthy(a.vector_filter_mode), k12, "vector_filter_mode", a.vector_filter_mode)
    IN  PutIf(Truthy(effective_debug(a, d)), k13, "debug", effective_debug(a, d))

caption_preferences(a) ==
    IF TruthyAtoms(a.captions)
    THEN [requested |-> TRUE, highlight |-> _parse_semantic_captions(a.captions).highlight]
    ELSE [requested |-> FALSE, highlight |-> FALSE]

\* the applied echo, lines 314-352
applied_payload(a, d) ==
    LET p0 == [top |-> a.top,
               semantic_configuration |-> effective_semantic_configuration(a, d),
               count |-> a.count,
               captions |-> a.captions,
               answers |-> a.answers,
               include_scores |-> a.include_scores]
        l1 == Put(Put(Put(p0, "search_mode", effective_search_mode(a, d)),
                      "search_fields", search_fields_value(a, d)),
                  "query_type", effective_query_type(a, d))
        l2 == IF effective_query_type(a, d) = "semantic"
              THEN Put(Put(l1, "query_language", effective_query_language(a, d)),
                       "query_rewrites", effective_query_rewrites(a, d))
              ELSE PutIf(Truthy(a.query_language), l1, "query_language", a.query_language)
        l3 == PutIf(Truthy(a.query_rewrites), l2, "query_rewrites", a.query_rewrites)
        p1 == IF has_lexical(a) THEN l3 ELSE p0
        p2 == PutIf(select_value(a, d) # <<>>, p1, "select", select_value(a, d))
        p3 == IF has_vectors(a)
              THEN Update(p2, [vector_fields |-> vector_field_value(a, d),
                               vector_default_k |-> effective_vector_default_k(a, d),
                               vector_default_weight |-> effective_vector_default_weight(a, d),
                               vector_ks |-> resolved_vector_ks(a, d),
                               vector_weights |-> resolved_vector_weights(a, d)])
              ELSE p2
        p4 == PutIf(facet_values(a) # <<>>, p3, "facets", facet_values(a))
        p5 == PutIf(Truthy(a.vector_filter_mode), p4, "vector_filter_mode", a.vector_filter_mode)
        p6 == PutIf(TruthyNum(a.skip), p5, "skip", a.skip)
    IN  PutIf(Truthy(effective_debug(a, d)), p6, "debug", effective_debug(a, d))

-----------------------------------------------------------------------------
(* client.py: AzureSearchClient._format_results.  A row is a function from *)
(* field names to values; a caption entry is a record with its style       *)
(* ("attr" for an object with attributes, "map" for a mapping).            *)

default_field_order == <<"title", "Title", "name", "Name", "FullName", "fullName">>

\* result.get(key)
result_get(result, key) == IF key \in DOMAIN result THEN result[key] ELSE NULL

RECURSIVE CopyFields(_, _, _)
\* for field in fields: copy the values that are not in (None, "")
CopyFields(fields, result, entry) ==
    IF fields = <<>> THEN entry
    ELSE CopyFields(Tail(fields), result,
                    PutIf(Truthy(result_get(result, Head(fields))) /\ Head(fields) \notin DOMAIN entry,
                          entry, Head(fields), result_get(result, Head(fields))))

\* variant: the title fields are copied even when a select list is given
ProjectedEntry_with_defaults(result, select_list) ==
    CopyFields(select_list \o default_field_order, result, EmptyMap)

\* lines 387-404
ProjectedEntry(result, select_list) ==
    IF select_list # <<>> THEN CopyFields(select_list, result, EmptyMap)
    ELSE LET e1 == CopyFields(default_field_order, result, EmptyMap)
             e2 == PutIf(Truthy(result_get(result, "content")), e1,
                         "content", result_get(result, "content"))
             chunk_value == IF Truthy(result_get(result, "chunk"))
                            THEN result_get(result, "chunk")
                            ELSE result_get(result, "Chunk")
         IN  PutIf(Truthy(chunk_value), e2, "chunk", chunk_value)

\* (getattr(first, name, "") or "").strip() and (first.get(name) or "").strip()
CaptionField(first, name) ==
    IF first.style = "attr"
    THEN Strip(IF Truthy(first[name]) THEN first[name] ELSE "")
    ELSE Strip(IF Truthy(first[name]) THEN first[name] ELSE "")

\* variant: the highlight text is preferred whether or not highlighting was requested
caption_value_preferring_highlight(result, highlight_requested) ==
    LET captions == IF "@search.captions" \in DOMAIN result
                    THEN result["@search.captions"] ELSE <<>>
    IN  IF captions = <<>> THEN NULL
        ELSE LET first == captions[1]
                 highlight_text == CaptionField(first, "highlights")
                 caption_text == CaptionField(first, "text")
             IN  IF highlight_text # "" THEN highlight_text
                 ELSE IF caption_text # "" THEN caption_text
                 ELSE NULL

\* lines 406-424: the caption value, NULL when there is none
caption_value(result, highlight_requested) ==
    LET captions == IF "@search.captions" \in DOMAIN result
                    THEN result["@search.captions"] ELSE <<>>
    IN  IF captions = <<>> THEN NULL
        ELSE LET first == captions[1]
                 highlight_text == CaptionField(first, "highlights")
                 caption_text == CaptionField(first, "text")
             IN  IF highlight_requested /\ highlight_text # "" THEN highlight_text
                 ELSE IF highlight_requested /\ highlight_text = "" /\ caption_text # ""
                      THEN caption_text
                 ELSE IF ~highlight_requested /\ caption_text # "" THEN caption_text
                 ELSE NULL

\* key.startswith("@")
IsInternalKey(key) == key \in {"@search.score", "@search.rerankerScore", "@search.captions"}

\* lines 434-442: the fallback for an entry that is still empty
FallbackEntry(result, include_scores) ==
    LET keys == {k \in DOMAIN result : ~IsInternalKey(k) /\ Truthy(result[k])}
        copied == [k \in keys |-> result[k]]
    IN  PutIf(include_scores /\ "@search.score" \notin DOMAIN copied, copied, "@search.score",
              IF "@search.score" \in DOMAIN result THEN result["@search.score"] ELSE 0)

\* the body of the for loop, lines 385-444
FormatRow(result, select_list, include_scores, prefs) ==
    LET e1 == ProjectedEntry(result, select_list)
        e2 == IF prefs.requested
              THEN PutIf(Truthy(caption_value(result, prefs.highlight)), e1,
                         "@search.caption", caption_value(result, prefs.highlight))
              ELSE e1
        e3 == IF include_scores
              THEN PutIf("@search.rerankerScore" \in DOMAIN result,
                         PutIf("@search.score" \in DOMAIN result, e2,
                               "@search.score", result_get(result, "@search.score")),
                         "@search.rerankerScore", result_get(result, "@search.rerankerScore"))
              ELSE e2
    IN  IF DOMAIN e3 = {} THEN FallbackEntry(result, include_scores) ELSE e3

\* variant: a row whose entry stays empty is left out of the list
_format_results_skipping_empty(results, select_fields, include_scores, prefs) ==
    SelectSeq([i \in 1..Len(results) |->
                 FormatRow(results[i], select_fields, include_scores, prefs)],
              LAMBDA entry : DOMAIN entry # {})

\* lines 376-446: formatted_results gets one entry per result, in iteration order
_format_results(results, select_fields, include_scores, prefs) ==
    [i \in 1..Len(results) |-> FormatRow(results[i], select_fields, include_scores, prefs)]

-----------------------------------------------------------------------------
(* utils.py: the normalizers the tools apply to native-list arguments *)

\* _ensure_list_of_strings on a native list: None dropped, each item stripped
_ensure_list_of_strings(value) ==
    LET kept == SelectSeq(value, LAMBDA item : item # NULL)
    IN  [i \in 1..Len(kept) |-> Strip(kept[i])]

\* int(str(token).strip()); NoneNum when int() raises ValueError
TokenInt(token) ==
    CASE token = "60" -> 60
      [] token = "55" -> 55
      [] token = " 40 " -> 40
      [] token = "0" -> 0
      [] OTHER -> NoneNum

\* float(str(token).strip()) in tenths; NoneNum when float() raises ValueError
TokenFloat(token) ==
    CASE token = "2.0" -> 20
      [] token = "1.5" -> 15
      [] token = "1.1" -> 11
      [] token = "55" -> 550
      [] token = "60" -> 600
      [] token = " 40 " -> 400
      [] token = "0" -> 0
      [] OTHER -> NoneNum

\* json.loads on the JSON literals of the model: a string, null, or an array of
\* strings and numbers, read as the entry it denotes (kind "list": the str() of its
\* elements); any other text raises JSONDecodeError
JsonLiteral(literal) ==
    CASE literal = "\"embedded\"" ->
           [ok |-> TRUE, entry |-> [kind |-> "str", text |-> "embedded", items |-> <<>>]]
      [] literal = "\" firmware \"" ->
           [ok |-> TRUE, entry |-> [kind |-> "str", text |-> " firmware ", items |-> <<>>]]
      [] literal = "\"  \"" ->
           [ok |-> TRUE, entry |-> [kind |-> "str", text |-> "  ", items |-> <<>>]]
      [] literal = "\"[embedded, 60]\"" ->
           [ok |-> TRUE, entry |-> [kind |-> "str", text |-> "[embedded, 60]", items |-> <<>>]]
      [] literal = "null" ->
           [ok |-> TRUE, entry |-> [kind |-> "none", text |-> NULL, items |-> <<>>]]
      [] literal = "[\"embedded\", 60, 2.0]" ->
           [ok |-> TRUE,
            entry |-> [kind |-> "list", text |-> NULL, items |-> <<"embedded", "60", "2.0">>]]
      [] literal = "[\"firmware\", \"sixty\", 1.5]" ->
           [ok |-> TRUE,
            entry |-> [kind |-> "list", text |-> NULL, items |-> <<"firmware", "sixty", "1.5">>]]
      [] literal = "[\"embedded\", 60, \"heavy\"]" ->
           [ok |-> TRUE,
            entry |-> [kind |-> "list", text |-> NULL, items |-> <<"embedded", "60", "heavy">>]]
      [] literal = "[\"  \", 60]" ->
           [ok |-> TRUE, entry |-> [kind |-> "list", text |-> NULL, items |-> <<"  ", "60">>]]
      [] OTHER -> [ok |-> FALSE, entry |-> [kind |-> "none", text |-> NULL, items |-> <<>>]]

\* variant: an entry whose k or weight does not parse is dropped
ListEntry_dropping_unparsable(items) ==
    IF items = <<>> THEN <<>>
    ELSE LET text == Strip(IF items[1] = NULL THEN "None" ELSE items[1])
             k_value == IF Len(items) > 1 /\ Truthy(items[2])
                        THEN TokenInt(items[2]) ELSE NoneNum
             weight_value == IF Len(items) > 2 /\ Truthy(items[3])
                             THEN TokenFloat(items[3]) ELSE NoneNum
         IN  IF text = "" THEN <<>>
             ELSE IF Len(items) > 1 /\ Truthy(items[2]) /\ k_value = NoneNum THEN <<>>
             ELSE IF Len(items) > 2 /\ Truthy(items[3]) /\ weight_value = NoneNum THEN <<>>
             ELSE << <<text, k_value, weight_value>> >>

\* lines 118-152: a list or tuple entry; its first element is stringified
ListEntry(items) ==
    IF items = <<>> THEN <<>>
    ELSE LET text == Strip(IF items[1] = NULL THEN "None" ELSE items[1])
             k_value == IF Len(items) > 1 /\ Truthy(items[2])
                        THEN TokenInt(items[2]) ELSE NoneNum
             weight_value == IF Len(items) > 2 /\ Truthy(items[3])
                             THEN TokenFloat(items[3]) ELSE NoneNum
         IN  IF text = "" THEN <<>> ELSE << <<text, k_value, weight_value>> >>

\* _parse_entry, lines 103-154: the descriptors one entry contributes (none or one
\* 3-tuple); a text that decodes as a JSON array is parsed as that list
_parse_entry(entry) ==
    IF entry.kind = "none" THEN <<>>
    ELSE IF entry.kind = "str"
    THEN IF Strip(entry.text) = "" THEN <<>>
         ELSE IF /\ JsonLiteral(Strip(entry.text)).ok
                 /\ JsonLiteral(Strip(entry.text)).entry.kind = "list"
         THEN ListEntry(JsonLiteral(Strip(entry.text)).entry.items)
         ELSE << <<Strip(entry.text), NoneNum, NoneNum>> >>
    ELSE ListEntry(entry.items)

RECURSIVE _normalize_vector_descriptors(_)
\* a native list of entries (None is the empty list): each entry parsed in order
_normalize_vector_descriptors(value) ==
    IF value = <<>> THEN <<>>
    ELSE _parse_entry(Head(value)) \o _normalize_vector_descriptors(Tail(value))

-----------------------------------------------------------------------------
(* What the caller of an entry point observes *)

MSG_NOT_INITIALIZED == "Azure Search client is not initialized. Check server logs for details."

MSG_TOOL_INPUT == "Provide either a lexical search query, at least one vector descriptor, or both."

MSG_BACKEND == "backend failure"

MSG_SHAPING == "shaping failure"

MSG_INDEX_ERROR == "tuple index out of range"

MSG_MISSING_KWARGS == "hybrid_search() missing 6 required keyword-only arguments"

MSG_INVALID_INT == "invalid literal for int() with base 10"

NoOutcome == [kind |-> "none", exc |-> NULL, msg |-> NULL, searchType |-> NULL]

\* the tool returned a result envelope
Returned(label) == [kind |-> "return", exc |-> NULL, msg |-> NULL, searchType |-> label]

\* the tool returned an error payload (a dict with "error", or an error string)
ErrorPayload(msg, label) == [kind |-> "error", exc |-> NULL, msg |-> msg, searchType |-> label]

\* an exception left the entry point
Raised(exc, msg) == [kind |-> "raise", exc |-> exc, msg |-> msg, searchType |-> NULL]

NoPayload == [items |-> <<>>, count |-> NoneNum, facets |-> NULL, applied |-> EmptyMap]

NoRequest == [search |-> NULL, vectors |-> <<>>]

NoResults == [raises |-> FALSE, rows |-> <<>>, count |-> 0, facets |-> NULL]

\* how an exception raised inside client.hybrid_search reaches the caller:
\* search.py calls it outside its try block, hybrid.py inside
Propagate(entry_point, exc, msg) ==
    IF entry_point = "hybrid_search" THEN ErrorPayload(msg, NULL) ELSE Raised(exc, msg)

-----------------------------------------------------------------------------
(* client.py: AzureSearchClient.__init__ and runtime.initialize_runtime.   *)
(* env holds the process environment; a list-valued variable is given as   *)
(* the list of its comma-separated parts.                                  *)

\* _try_parse_int(os.getenv(...)) for the values the model draws from
_try_parse_int(value) == IF value = NULL THEN NoneNum ELSE TokenInt(value)

\* _try_parse_float(os.getenv(...)), in tenths
_try_parse_float(value) == IF value = NULL THEN NoneNum ELSE TokenFloat(value)

\* variant: the default rewrites have no built-in fallback
ClientDefaults_without_builtin_rewrites(env) ==
    [default_semantic_configuration |-> env.AZURE_SEARCH_SEMANTIC_CONFIGURATION,
     default_search_fields |-> _ensure_list_of_strings(env.AZURE_SEARCH_SEARCH_FIELDS),
     default_vector_fields |-> _ensure_list_of_strings(env.AZURE_SEARCH_VECTOR_FIELDS),
     default_select_fields |-> _ensure_list_of_strings(env.AZURE_SEARCH_SELECT_FIELDS),
     default_query_type |-> env.AZURE_SEARCH_QUERY_TYPE,
     default_search_mode |-> IF env.AZURE_SEARCH_SEARCH_MODE = NULL THEN "all"
                             ELSE env.AZURE_SEARCH_SEARCH_MODE,
     default_query_language |-> env.AZURE_SEARCH_QUERY_LANGUAGE,
     default_query_rewrites |-> env.AZURE_SEARCH_QUERY_REWRITES,
     default_debug |-> env.AZURE_SEARCH_DEBUG,
     default_vector_k |-> _coalesce_num(<<_try_parse_int(env.AZURE_SEARCH_VECTOR_DEFAULT_K), 60>>),
     default_vector_weight |->
         _coalesce_num(<<_try_parse_float(env.AZURE_SEARCH_VECTOR_DEFAULT_WEIGHT), 10>>)]

\* the default_* attributes set by lines 62-79
ClientDefaults(env) ==
    [default_semantic_configuration |-> env.AZURE_SEARCH_SEMANTIC_CONFIGURATION,
     default_search_fields |-> _ensure_list_of_strings(env.AZURE_SEARCH_SEARCH_FIELDS),
     default_vector_fields |-> _ensure_list_of_strings(env.AZURE_SEARCH_VECTOR_FIELDS),
     default_select_fields |-> _ensure_list_of_strings(env.AZURE_SEARCH_SELECT_FIELDS),
     default_query_type |-> env.AZURE_SEARCH_QUERY_TYPE,
     default_search_mode |-> IF env.AZURE_SEARCH_SEARCH_MODE = NULL THEN "all"
                             ELSE env.AZURE_SEARCH_SEARCH_MODE,
     default_query_language |-> env.AZURE_SEARCH_QUERY_LANGUAGE,
     default_query_rewrites |-> IF Truthy(env.AZURE_SEARCH_QUERY_REWRITES)
                                THEN env.AZURE_SEARCH_QUERY_REWRITES
                                ELSE "generative|count-5",
     default_debug |-> env.AZURE_SEARCH_DEBUG,
     default_vector_k |-> _coalesce_num(<<_try_parse_int(env.AZURE_SEARCH_VECTOR_DEFAULT_K), 60>>),
     default_vector_weight |->
         _coalesce_num(<<_try_parse_float(env.AZURE_SEARCH_VECTOR_DEFAULT_WEIGHT), 10>>)]

\* initialize_runtime: search_client is None when the constructor raised
InitializeRuntime(env) == IF env.credentials THEN "ready" ELSE "None"

\* the environment of tests/unit/test_hybrid_search.py's fixture
BaseEnv ==
    [credentials |-> TRUE,
     AZURE_SEARCH_SEMANTIC_CONFIGURATION |-> "semantic-config",
     AZURE_SEARCH_SEARCH_FIELDS |-> <<"chunk", "FullName">>,
     AZURE_SEARCH_VECTOR_FIELDS |-> <<"text_vector">>,
     AZURE_SEARCH_SELECT_FIELDS |-> <<"chunk", "FullName">>,
     AZURE_SEARCH_QUERY_TYPE |-> NULL,
     AZURE_SEARCH_SEARCH_MODE |-> NULL,
     AZURE_SEARCH_QUERY_LANGUAGE |-> "en-US",
     AZURE_SEARCH_QUERY_REWRITES |-> NULL,
     AZURE_SEARCH_DEBUG |-> NULL,
     AZURE_SEARCH_VECTOR_DEFAULT_K |-> "55",
     AZURE_SEARCH_VECTOR_DEFAULT_WEIGHT |-> "1.1"]

\* nothing configured: the constructor raises ValueError
EmptyEnv ==
    [credentials |-> FALSE,
     AZURE_SEARCH_SEMANTIC_CONFIGURATION |-> NULL,
     AZURE_SEARCH_SEARCH_FIELDS |-> <<>>,
     AZURE_SEARCH_VECTOR_FIELDS |-> <<>>,
     AZURE_SEARCH_SELECT_FIELDS |-> <<>>,
     AZURE_SEARCH_QUERY_TYPE |-> NULL,
     AZURE_SEARCH_SEARCH_MODE |-> NULL,
     AZURE_SEARCH_QUERY_LANGUAGE |-> NULL,
     AZURE_SEARCH_QUERY_REWRITES |-> NULL,
     AZURE_SEARCH_DEBUG |-> NULL,
     AZURE_SEARCH_VECTOR_DEFAULT_K |-> NULL,
     AZURE_SEARCH_VECTOR_DEFAULT_WEIGHT |-> NULL]

\* the environments of the main specification
EnvMain ==
    {EmptyEnv} \cup
    {[BaseEnv EXCEPT !.AZURE_SEARCH_SEMANTIC_CONFIGURATION = sc,
                     !.AZURE_SEARCH_SEARCH_FIELDS = sf,
                     !.AZURE_SEARCH_QUERY_TYPE = qt,
                     !.AZURE_SEARCH_SEARCH_MODE = sm,
                     !.AZURE_SEARCH_QUERY_LANGUAGE = ql] :
        sc \in {NULL, "semantic-config"},
        sf \in {<<>>, <<"chunk", "FullName">>},
        qt \in {NULL, "semantic"},
        sm \in {NULL, "Any"},
        ql \in {NULL, "en-US"}}

-----------------------------------------------------------------------------
(* The calls the model issues *)

\* a lexical call with every optional argument left out
BaseArgs ==
    [search_text |-> "firmware", vector_texts |-> <<>>, top |-> 5, skip |-> NoneNum,
     count |-> FALSE, select_fields |-> <<>>, query_type |-> NULL, query_language |-> NULL,
     query_rewrites |-> NULL, semantic_configuration |-> NULL, captions |-> NoneAtoms,
     answers |-> NoneAtoms, filter_expression |-> NULL, order_by |-> <<>>, facets |-> NoFacets,
     vector_filter_mode |-> NULL, search_mode |-> NULL, search_fields |-> <<>>,
     vector_fields |-> <<>>, vector_ks |-> <<>>, vector_weights |-> <<>>,
     vector_rewrites |-> <<>>, vector_default_k |-> NoneNum,
     vector_default_weight |-> NoneNum, include_scores |-> FALSE, debug |-> NULL]

\* the calls of the main specification: every validation can pass or fail
ArgsMain ==
    {[BaseArgs EXCEPT !.search_text = st, !.vector_texts = vt,
                      !.semantic_configuration = sc, !.search_fields = sf,
                      !.search_mode = sm, !.query_type = qt,
                      !.query_language = lr[1], !.query_rewrites = lr[2]] :
        st \in {"  ", " firmware "},
        vt \in {<<NULL, "  ">>, <<"Firmware">>},
        sc \in {NULL, "", "my-config"},
        sf \in {<<>>, <<"  ">>, <<"chunk">>},
        sm \in {NULL, "ALL", "Bogus"},
        qt \in {NULL, "semantic", "simple"},
        lr \in {<<"  ", NULL>>, <<" en-US ", NULL>>, <<" en-US ", " generative|count-7 ">>}}

\* the vectors arguments given to the search tool
VectorsMain ==
    {<<>>,
     <<[kind |-> "str", text |-> "  ", items |-> <<>>], [kind |-> "none", text |-> NULL, items |-> <<>>]>>,
     <<[kind |-> "list", text |-> NULL, items |-> <<"  ", "60">>]>>,
     <<[kind |-> "str", text |-> "embedded", items |-> <<>>]>>,
     <<[kind |-> "list", text |-> NULL, items |-> <<"embedded", "60", "2.0", "generative|count-3">>]>>}

\* the other arguments given to the search tool
ToolArgsMain ==
    {[BaseArgs EXCEPT !.search_text = st, !.semantic_configuration = sc,
                      !.search_fields = sf, !.query_type = qt, !.query_language = ql] :
        st \in {NULL, "  ", " firmware "},
        sc \in {NULL, "my-config"},
        sf \in {<<>>, <<NULL, " chunk ">>},
        qt \in {NULL, "semantic"},
        ql \in {NULL, "  ", " en-US "}}

\* the queries given to keyword_search and vector_search
Queries == {"", "firmware"}

\* one row stream of the backend, and a failing call
Row1 == [title |-> "Doc1", chunk |-> "Alpha", FullName |-> "Ann"] @@ ("@search.score" :> 10)

Row2 == [title |-> "Doc2", chunk |-> "Beta"] @@ ("@search.score" :> 8)

BackendFailure == [raises |-> TRUE, rows |-> <<>>, count |-> 0, facets |-> NULL]

BackendMain ==
    {BackendFailure, [raises |-> FALSE, rows |-> <<Row1, Row2>>, count |-> 42, facets |-> NULL]}

-----------------------------------------------------------------------------
(* State after startup, and the entry points *)

InitWith(envs) ==
    /\ \E env \in envs :
         /\ search_client = InitializeRuntime(env)
         /\ defaults = ClientDefaults(env)
    /\ tool = "none"
    /\ pc = "idle"
    /\ args = BaseArgs
    /\ search_kwargs = EmptyMap
    /\ backend_calls = 0
    /\ results_page = NoResults
    /\ payload = NoPayload
    /\ normalized = FALSE
    /\ request = NoRequest
    /\ outcome = NoOutcome

\* no call is in progress: the server waits for a request
Idle == pc = "idle"

\* the entry point returns (or raises) to its caller
Finish(o) == outcome' = o /\ pc' = "done"

\* client.hybrid_search called directly, as the unit tests do
ClientHybridSearch(a) ==
    /\ pc = "idle"
    /\ search_client = "ready"
    /\ tool' = "client"
    /\ args' = a
    /\ pc' = "input"
    /\ UNCHANGED <<search_client, defaults, search_kwargs, backend_calls,
                   results_page, payload, normalized, request, outcome>>

\* item[3] for item in vector_descriptors: IndexError on a shorter tuple
RewritesOf(item) == IF Len(item) >= 4 THEN item[4] ELSE NULL

\* tools/search.py lines 310-330: the arguments the tool passes on
SearchToolArgs(a, vector_descriptors) ==
    [a EXCEPT !.search_text = Strip(IF a.search_text = NULL THEN "" ELSE a.search_text),
              !.vector_texts = [i \in 1..Len(vector_descriptors) |-> vector_descriptors[i][1]],
              !.vector_ks = [i \in 1..Len(vector_descriptors) |-> vector_descriptors[i][2]],
              !.vector_weights = [i \in 1..Len(vector_descriptors) |-> vector_descriptors[i][3]],
              !.vector_rewrites = [i \in 1..Len(vector_descriptors) |-> RewritesOf(vector_descriptors[i])],
              !.query_language = IF a.query_language # NULL THEN Strip(a.query_language) ELSE NULL,
              !.query_rewrites = IF a.query_rewrites # NULL THEN Strip(a.query_rewrites) ELSE NULL,
              !.debug = IF a.debug # NULL THEN Strip(a.debug) ELSE NULL,
              !.search_fields = _ensure_list_of_strings(a.search_fields),
              !.select_fields = _ensure_list_of_strings(a.select_fields),
              !.vector_fields = _ensure_list_of_strings(a.vector_fields),
              !.order_by = _ensure_list_of_strings(a.order_by),
              !.facets = FacetList(_ensure_list_of_facets(a.facets))]

\* tools/search.py: the search tool up to its call of client.hybrid_search
SearchTool(a, vectors) ==
    /\ pc = "idle"
    /\ tool' = "search"
    /\ request' = [search |-> a.search_text, vectors |-> vectors]
    /\ IF search_client = "None"
       THEN /\ Finish(ErrorPayload(MSG_NOT_INITIALIZED, "Search"))
            /\ UNCHANGED <<args, normalized>>
       ELSE LET vector_descriptors == _normalize_vector_descriptors(vectors)
                lexical == Strip(IF a.search_text = NULL THEN "" ELSE a.search_text)
            IN  /\ normalized' = TRUE
                /\ IF lexical = "" /\ vector_descriptors = <<>>
                   THEN /\ Finish(ErrorPayload(MSG_TOOL_INPUT, "Search"))
                        /\ UNCHANGED args
                   ELSE IF \E i \in 1..Len(vector_descriptors) : Len(vector_descriptors[i]) < 4
                   THEN /\ Finish(Raised("IndexError", MSG_INDEX_ERROR))
                        /\ UNCHANGED args
                   ELSE /\ args' = SearchToolArgs(a, vector_descriptors)
                        /\ pc' = "input"
                        /\ UNCHANGED outcome
    /\ UNCHANGED <<search_client, defaults, search_kwargs, backend_calls, results_page, payload>>

\* the structured envelope built by formatting.format_results
format_results(results_payload, search_type) ==
    [searchType |-> search_type, count |-> results_payload.count,
     items |-> results_payload.items, facets |-> results_payload.facets]

\* keyword.py / vector.py: the body of the tool's try block for a ready client
SimpleToolResult(label, r, shaped) ==
    IF r.raises THEN ErrorPayload(MSG_BACKEND, label)
    ELSE IF ~shaped THEN ErrorPayload(MSG_SHAPING, label)
    ELSE Returned(label)

SimpleToolPayload(r) ==
    IF r.raises THEN NoPayload
    ELSE [items |-> _format_results(r.rows, <<>>, TRUE, [requested |-> FALSE, highlight |-> FALSE]),
          count |-> NoneNum, facets |-> NULL, applied |-> EmptyMap]

\* tools/keyword.py with client.keyword_search
KeywordSearchTool(query, r, shaped) ==
    /\ pc = "idle"
    /\ tool' = "keyword_search"
    /\ IF search_client = "None"
       THEN /\ Finish(ErrorPayload(MSG_NOT_INITIALIZED, "Keyword Search"))
            /\ UNCHANGED <<search_kwargs, backend_calls, results_page, payload>>
       ELSE /\ search_kwargs' = [search_text |-> query, top |-> 5]
            /\ backend_calls' = backend_calls + 1
            /\ results_page' = r
            /\ payload' = SimpleToolPayload(r)
            /\ Finish(SimpleToolResult("Keyword Search", r, shaped))
    /\ UNCHANGED <<search_client, defaults, args, normalized, request>>

\* tools/vector.py with client.vector_search
VectorSearchTool(query, r, shaped) ==
    /\ pc = "idle"
    /\ tool' = "vector_search"
    /\ IF search_client = "None"
       THEN /\ Finish(ErrorPayload(MSG_NOT_INITIALIZED, "Vector Search"))
            /\ UNCHANGED <<search_kwargs, backend_calls, results_page, payload>>
       ELSE /\ search_kwargs' =
                 [vector_queries |-> <<[text |-> query, k_nearest_neighbors |-> 50,
                                        fields |-> "text_vector"]>>,
                  top |-> 5]
            /\ backend_calls' = backend_calls + 1
            /\ results_page' = r
            /\ payload' = SimpleToolPayload(r)
            /\ Finish(SimpleToolResult("Vector Search", r, shaped))
    /\ UNCHANGED <<search_client, defaults, args, normalized, request>>

\* variant: the tool does not look at the client before it starts
HybridSearchTool_unguarded(vector_ks) ==
    /\ pc = "idle"
    /\ tool' = "hybrid_search"
    /\ normalized' = TRUE
    /\ Finish(Propagate("hybrid_search", "TypeError", MSG_MISSING_KWARGS))
    /\ UNCHANGED <<search_client, defaults, args, search_kwargs, backend_calls,
                   results_page, payload, request>>

\* tools/hybrid.py: its call of client.hybrid_search leaves out skip, query_language,
\* query_rewrites, vector_rewrites, include_scores and debug, so Python raises
\* TypeError before the body runs; the tool's except clause turns it into a string
HybridSearchTool(vector_ks) ==
    /\ pc = "idle"
    /\ tool' = "hybrid_search"
    /\ IF search_client = "None"
       THEN /\ Finish(ErrorPayload(MSG_NOT_INITIALIZED, NULL))
            /\ UNCHANGED normalized
       ELSE /\ normalized' = TRUE
            /\ IF \E i \in 1..Len(vector_ks) : TokenInt(vector_ks[i]) = NoneNum
               THEN Finish(Propagate("hybrid_search", "ValueError", MSG_INVALID_INT))
               ELSE Finish(Propagate("hybrid_search", "TypeError", MSG_MISSING_KWARGS))
    /\ UNCHANGED <<search_client, defaults, args, search_kwargs, backend_calls,
                   results_page, payload, request>>

-----------------------------------------------------------------------------
(* client.py: AzureSearchClient.hybrid_search, step by step *)

\* the error hybrid_search raises before the backend call, NULL when it raises none:
\* the checks of lines 147-183 and 266-285 in their order
hybrid_search_error(a, d) ==
    IF ~has_lexical(a) /\ ~has_vectors(a) THEN ERR_INPUT
    ELSE IF ~Truthy(effective_semantic_configuration(a, d)) THEN ERR_SEMANTIC_CONFIGURATION
    ELSE IF has_lexical(a) /\ effective_search_fields(a, d) = <<>> THEN ERR_SEARCH_FIELDS
    ELSE IF has_lexical(a) /\ requested_search_mode(a, d) \notin {"any", "all"}
         THEN ERR_SEARCH_MODE
    ELSE IF effective_query_type(a, d) = "semantic" /\ ~Truthy(effective_query_language(a, d))
         THEN ERR_QUERY_LANGUAGE
    ELSE IF TruthyAtoms(a.answers) /\ _parse_semantic_answers(a.answers).raised
         THEN MSG_INVALID_INT
    ELSE NULL

\* lines 141-148
ValidateInput ==
    /\ pc = "input"
    /\ IF ~has_lexical(args) /\ ~has_vectors(args)
       THEN Finish(Propagate(tool, "ValueError", ERR_INPUT))
       ELSE pc' = "semantic_configuration" /\ UNCHANGED outcome
    /\ UNCHANGED <<search_client, defaults, tool, args, search_kwargs, backend_calls,
                   results_page, payload, normalized, request>>

\* lines 150-158
RequireSemanticConfiguration ==
    /\ pc = "semantic_configuration"
    /\ IF ~Truthy(effective_semantic_configuration(args, defaults))
       THEN Finish(Propagate(tool, "ValueError", ERR_SEMANTIC_CONFIGURATION))
       ELSE pc' = "search_fields" /\ UNCHANGED outcome
    /\ UNCHANGED <<search_client, defaults, tool, args, search_kwargs, backend_calls,
                   results_page, payload, normalized, request>>

\* lines 160-171
RequireSearchFields ==
    /\ pc = "search_fields"
    /\ IF has_lexical(args) /\ effective_search_fields(args, defaults) = <<>>
       THEN Finish(Propagate(tool, "ValueError", ERR_SEARCH_FIELDS))
       ELSE pc' = "search_mode" /\ UNCHANGED outcome
    /\ UNCHANGED <<search_client, defaults, tool, args, search_kwargs, backend_calls,
                   results_page, payload, normalized, request>>

\* variant: the search mode is validated after the override for semantic queries
ValidateSearchMode_after_override ==
    /\ pc = "search_mode"
    /\ IF has_lexical(args) /\ effective_search_mode(args, defaults) \notin {"any", "all"}
       THEN Finish(Propagate(tool, "ValueError", ERR_SEARCH_MODE))
       ELSE pc' = "compose" /\ UNCHANGED outcome
    /\ UNCHANGED <<search_client, defaults, tool, args, search_kwargs, backend_calls,
                   results_page, payload, normalized, request>>

\* variant: the search mode is validated for vector-only calls as well
ValidateSearchMode_without_lexical ==
    /\ pc = "search_mode"
    /\ IF requested_search_mode(args, defaults) \notin {"any", "all"}
       THEN Finish(Propagate(tool, "ValueError", ERR_SEARCH_MODE))
       ELSE pc' = "compose" /\ UNCHANGED outcome
    /\ UNCHANGED <<search_client, defaults, tool, args, search_kwargs, backend_calls,
                   results_page, payload, normalized, request>>

\* lines 173-183
ValidateSearchMode ==
    /\ pc = "search_mode"
    /\ IF has_lexical(args) /\ requested_search_mode(args, defaults) \notin {"any", "all"}
       THEN Finish(Propagate(tool, "ValueError", ERR_SEARCH_MODE))
       ELSE pc' = "compose" /\ UNCHANGED outcome
    /\ UNCHANGED <<search_client, defaults, tool, args, search_kwargs, backend_calls,
                   results_page, payload, normalized, request>>

\* variant: the search mode a call resolved becomes the process default
ComposeKwargs_storing_mode ==
    /\ pc = "compose"
    /\ IF /\ effective_query_type(args, defaults) = "semantic"
          /\ ~Truthy(effective_query_language(args, defaults))
       THEN /\ Finish(Propagate(tool, "ValueError", ERR_QUERY_LANGUAGE))
            /\ UNCHANGED <<search_kwargs, defaults>>
       ELSE /\ search_kwargs' = compose_search_kwargs(args, defaults)
            /\ defaults' = [defaults EXCEPT !.default_search_mode =
                                                effective_search_mode(args, defaults)]
            /\ pc' = "backend"
            /\ UNCHANGED outcome
    /\ UNCHANGED <<search_client, tool, args, backend_calls,
                   results_page, payload, normalized, request>>

\* lines 185-302
ComposeKwargs ==
    /\ pc = "compose"
    /\ IF /\ effective_query_type(args, defaults) = "semantic"
          /\ ~Truthy(effective_query_language(args, defaults))
       THEN /\ Finish(Propagate(tool, "ValueError", ERR_QUERY_LANGUAGE))
            /\ UNCHANGED search_kwargs
       ELSE IF TruthyAtoms(args.answers) /\ _parse_semantic_answers(args.answers).raised
       THEN /\ Finish(Propagate(tool, "ValueError", MSG_INVALID_INT))
            /\ UNCHANGED search_kwargs
       ELSE /\ search_kwargs' = compose_search_kwargs(args, defaults)
            /\ pc' = "backend"
            /\ UNCHANGED outcome
    /\ UNCHANGED <<search_client, defaults, tool, args, backend_calls,
                   results_page, payload, normalized, request>>

\* variant: a failed backend call is tried a second time
BackendCall_retrying(r) ==
    /\ pc = "backend"
    /\ backend_calls' = backend_calls + 1
    /\ IF r.raises /\ backend_calls = 0
       THEN UNCHANGED <<pc, outcome, results_page>>
       ELSE IF r.raises
       THEN /\ Finish(Propagate(tool, "HttpResponseError", MSG_BACKEND))
            /\ UNCHANGED results_page
       ELSE /\ results_page' = r
            /\ pc' = "shape"
            /\ UNCHANGED outcome
    /\ UNCHANGED <<search_client, defaults, tool, args, search_kwargs, payload, normalized, request>>

\* line 304: self.search_client.search(**search_kwargs) answers with r
BackendCall(r) ==
    /\ pc = "backend"
    /\ backend_calls' = backend_calls + 1
    /\ IF r.raises
       THEN /\ Finish(Propagate(tool, "HttpResponseError", MSG_BACKEND))
            /\ UNCHANGED results_page
       ELSE /\ results_page' = r
            /\ pc' = "shape"
            /\ UNCHANGED outcome
    /\ UNCHANGED <<search_client, defaults, tool, args, search_kwargs, payload, normalized, request>>

\* lines 306-364
ShapeResults ==
    /\ pc = "shape"
    /\ payload' =
         [items |-> _format_results(results_page.rows, effective_select_fields(args, defaults),
                                    args.include_scores, caption_preferences(args)),
          count |-> IF args.count THEN results_page.count ELSE NoneNum,
          facets |-> results_page.facets,
          applied |-> applied_payload(args, defaults)]
    /\ IF tool = "client"
       THEN Finish(Returned(NULL))
       ELSE pc' = "format" /\ UNCHANGED outcome
    /\ UNCHANGED <<search_client, defaults, tool, args, search_kwargs, backend_calls,
                   results_page, normalized, request>>

\* tools/search.py lines 361-369: format_results inside the tool's try block
FormatPayload(shaped) ==
    /\ pc = "format"
    /\ Finish(IF shaped THEN Returned("Search") ELSE ErrorPayload(MSG_SHAPING, "Search"))
    /\ UNCHANGED <<search_client, defaults, tool, args, search_kwargs, backend_calls,
                   results_page, payload, normalized, request>>

\* the server is ready for the next request
NextRequest ==
    /\ pc = "done"
    /\ pc' = "idle"
    /\ tool' = "none"
    /\ args' = BaseArgs
    /\ search_kwargs' = EmptyMap
    /\ backend_calls' = 0
    /\ results_page' = NoResults
    /\ payload' = NoPayload
    /\ normalized' = FALSE
    /\ request' = NoRequest
    /\ outcome' = NoOutcome
    /\ UNCHANGED <<search_client, defaults>>

\* the steps of a hybrid_search call in progress
Step ==
    \/ ValidateInput
    \/ RequireSemanticConfiguration
    \/ RequireSearchFields
    \/ ValidateSearchMode
    \/ ComposeKwargs
    \/ ShapeResults
    \/ NextRequest

-----------------------------------------------------------------------------
(* The main specification: every entry point, every validation *)

Init == InitWith(EnvMain)

Next ==
    \/ Idle /\ \E a \in ArgsMain : ClientHybridSearch(a)
    \/ Idle /\ \E a \in ToolArgsMain, v \in VectorsMain : SearchTool(a, v)
    \/ \E q \in Queries, r \in BackendMain, shaped \in BOOLEAN : KeywordSearchTool(q, r, shaped)
    \/ \E q \in Queries, r \in BackendMain, shaped \in BOOLEAN : VectorSearchTool(q, r, shaped)
    \/ \E ks \in {<<>>, <<"60">>, <<"60", "x">>} : HybridSearchTool(ks)
    \/ \E r \in BackendMain : BackendCall(r)
    \/ \E shaped \in BOOLEAN : FormatPayload(shaped)
    \/ Step

Spec == Init /\ [][Next]_vars

-----------------------------------------------------------------------------
(* Properties of the main specification *)

\* the texts that are empty once trimmed
BlankTexts == {NULL, "", "  "}

\* a hybrid_search call is in progress or has finished (directly or through the search tool)
InHybridSearch == tool \in {"client", "search"} /\ pc \notin {"idle", "done"}

\* the backend call has been composed
Composed == tool \in {"client", "search"} /\ search_kwargs # EmptyMap

\* the three lexical arguments of a backend call
LexicalKwargs == {"search_text", "search_mode", "search_fields"}

\* C18: in every backend call issued by hybrid_search the three lexical arguments
\* are present if and only if the trimmed lexical query is non-empty, and
\* vector_queries is present if and only if at least one non-blank vector text
\* was supplied
C18_LexicalAndVectorArguments ==
    (Composed /\ backend_calls > 0)
        => /\ \A k \in LexicalKwargs :
                k \in DOMAIN search_kwargs <=> Strip(IF args.search_text = NULL THEN "" ELSE args.search_text) # ""
           /\ "vector_queries" \in DOMAIN search_kwargs
                <=> \E i \in 1..Len(args.vector_texts) :
                       args.vector_texts[i] \notin BlankTexts

\* a backend call was issued with a lexical query and search fields that are all blank
C18_Witness ==
    /\ tool = "client" /\ backend_calls > 0
    /\ args.search_text = " firmware "
    /\ args.search_fields = <<"  ">>
    /\ "search_text" \in DOMAIN search_kwargs
    /\ "search_fields" \notin DOMAIN search_kwargs

\* the rewrites the caller gave for the idx-th vector query, None when it gave none
SuppliedRewrites(idx) ==
    IF idx <= Len(args.vector_rewrites) THEN args.vector_rewrites[idx] ELSE NULL

\* C19: when the effective query type is not "semantic" (absent included), the
\* backend call carries query_language only as the non-empty value the caller
\* supplied, query_rewrites likewise, and every vector query carries only the
\* rewrites the caller gave it: the process defaults for language and rewrites
\* (the built-in "generative|count-5" included) are never injected
C19_NoDefaultsWithoutSemantic ==
    (Composed /\ effective_query_type(args, defaults) # "semantic")
        => /\ "query_language" \in DOMAIN search_kwargs
                => /\ args.query_language \notin {NULL, ""}
                   /\ search_kwargs.query_language = args.query_language
           /\ "query_rewrites" \in DOMAIN search_kwargs
                => /\ args.query_rewrites \notin {NULL, ""}
                   /\ search_kwargs.query_rewrites = args.query_rewrites
           /\ "vector_queries" \in DOMAIN search_kwargs
                => \A idx \in 1..Len(search_kwargs.vector_queries) :
                      search_kwargs.vector_queries[idx].query_rewrites = SuppliedRewrites(idx)

\* a non-semantic call reached the backend from a process whose default language
\* and default rewrites are set, and it carries neither
C19_Witness ==
    /\ Composed /\ backend_calls > 0
    /\ effective_query_type(args, defaults) = NULL
    /\ args.query_language = NULL /\ args.query_rewrites = NULL
    /\ defaults.default_query_language = "en-US"
    /\ defaults.default_query_rewrites = "generative|count-5"
    /\ "query_language" \notin DOMAIN search_kwargs
    /\ "query_rewrites" \notin DOMAIN search_kwargs

\* a direct hybrid_search call has finished
DirectCallDone == tool = "client" /\ pc = "done"

\* the search fields of the call, else the default ones
FieldsCallElseDefault ==
    IF Len(args.search_fields) > 0 THEN args.search_fields ELSE defaults.default_search_fields

\* the search mode of the call, else the default one, else "all", lowercased
ModeCallElseDefault ==
    Lower(IF args.search_mode \notin {NULL, ""} THEN args.search_mode
          ELSE IF defaults.default_search_mode \notin {NULL, ""} THEN defaults.default_search_mode
          ELSE "all")

\* the trimmed lexical query of the call is non-empty
LexicalPresent == args.search_text \notin BlankTexts

\* C20: the lexical-only requirements are enforced exactly when a lexical query
\* is present. With lexical text the call fails, before any backend call, when
\* the effective search fields are empty or the lowercased effective search mode
\* is neither "any" nor "all"; a call without lexical text never fails on its
\* search fields or search mode, and a vector-only call with a semantic
\* configuration, a language when semantic and a backend that answers returns;
\* every search_mode that reaches the backend is "any" or "all"
C20_LexicalRequirements ==
    /\ (DirectCallDone /\ LexicalPresent
           /\ (FieldsCallElseDefault = <<>> \/ ModeCallElseDefault \notin {"any", "all"}))
          => /\ outcome.kind = "raise"
             /\ outcome.exc = "ValueError"
             /\ backend_calls = 0
    /\ (DirectCallDone /\ outcome.kind = "raise"
           /\ outcome.msg \in {ERR_SEARCH_FIELDS, ERR_SEARCH_MODE})
          => /\ LexicalPresent
             /\ outcome.msg = ERR_SEARCH_FIELDS => FieldsCallElseDefault = <<>>
             /\ outcome.msg = ERR_SEARCH_MODE => ModeCallElseDefault \notin {"any", "all"}
    /\ (DirectCallDone /\ ~LexicalPresent /\ outcome.kind = "raise")
          => outcome.msg \in {ERR_INPUT, ERR_SEMANTIC_CONFIGURATION, ERR_QUERY_LANGUAGE, MSG_BACKEND}
    /\ (Composed /\ "search_mode" \in DOMAIN search_kwargs)
          => search_kwargs.search_mode \in {"any", "all"}

\* a vector-only call with no search fields configured anywhere and a search
\* mode that is neither "any" nor "all" returned its results
C20_Witness ==
    /\ DirectCallDone /\ outcome.kind = "return"
    /\ ~LexicalPresent
    /\ args.search_fields = <<>> /\ defaults.default_search_fields = <<>>
    /\ args.search_mode = "Bogus"
    /\ "search_mode" \notin DOMAIN search_kwargs

\* C1: a hybrid_search call, or a call of the search tool on an initialized client,
\* whose lexical query is empty after trimming and whose vector texts are all absent
\* or blank ends with the "Provide either ..." error and never invokes the backend
C1_EmptyInputRejected ==
    /\ (/\ tool = "client"
        /\ args.search_text \in BlankTexts
        /\ \A i \in 1..Len(args.vector_texts) : args.vector_texts[i] \in BlankTexts)
       => /\ backend_calls = 0
          /\ pc \in {"input", "done"}
          /\ pc = "done" => outcome = Raised("ValueError", ERR_INPUT)
    /\ (/\ tool = "search"
        /\ search_client = "ready"
        /\ request.search \in BlankTexts
        /\ \A i \in 1..Len(request.vectors) :
              \/ request.vectors[i].kind = "none"
              \/ request.vectors[i].kind = "str" /\ request.vectors[i].text \in BlankTexts
              \/ request.vectors[i].kind = "list" /\ request.vectors[i].items = <<>>
              \/ request.vectors[i].kind = "list" /\ request.vectors[i].items[1] \in {"", "  "})
       => /\ backend_calls = 0
          /\ pc = "done"
          /\ outcome = ErrorPayload(MSG_TOOL_INPUT, "Search")

\* a direct call with a blank query and two blank vector texts was rejected
C1_Witness ==
    /\ tool = "client"
    /\ pc = "done"
    /\ args.search_text = "  "
    /\ args.vector_texts = <<NULL, "  ">>
    /\ outcome = Raised("ValueError", ERR_INPUT)
    /\ backend_calls = 0

\* C2: in a hybrid_search execution the backend is invoked 0 times when a validation
\* error is raised and exactly once otherwise; every validation happens before the
\* backend call and the backend is never invoked twice
C2_BackendInvokedAtMostOnce ==
    /\ backend_calls <= 1
    /\ (InHybridSearch /\ pc \in {"input", "semantic_configuration", "search_fields",
                                   "search_mode", "compose", "backend"})
       => backend_calls = 0
    /\ (InHybridSearch /\ pc \in {"shape", "format"}) => backend_calls = 1
    /\ (tool = "client" /\ pc = "done")
       => IF outcome.kind = "raise" /\ outcome.msg \in ValidationErrors
          THEN backend_calls = 0
          ELSE backend_calls = 1

\* a call that passed every validation returned after its one backend call
C2_Witness ==
    /\ tool = "client"
    /\ pc = "done"
    /\ outcome.kind = "return"
    /\ backend_calls = 1

\* C3: with no search client every tool answers with the "not initialized" error,
\* whatever its arguments, without normalizing them, composing a query or calling
\* the backend
C3_NotInitializedShortCircuits ==
    search_client = "None"
    => /\ pc \in {"idle", "done"}
       /\ ~normalized
       /\ search_kwargs = EmptyMap
       /\ backend_calls = 0
       /\ pc = "done" => /\ tool \in {"search", "keyword_search", "vector_search", "hybrid_search"}
                         /\ outcome.kind = "error"
                         /\ outcome.msg = MSG_NOT_INITIALIZED

\* the hybrid_search tool answered "not initialized"
C3_Witness ==
    /\ search_client = "None"
    /\ tool = "hybrid_search"
    /\ pc = "done"
    /\ outcome.msg = MSG_NOT_INITIALIZED

\* C4: whenever composing the query, calling the backend or shaping the response
\* fails, the tool returns an error payload with a message (and its search-type
\* label for the structured tools) and the exception never reaches the tool's caller
C4_ToolsNeverPropagate ==
    (/\ tool \in {"search", "keyword_search", "vector_search", "hybrid_search"}
     /\ pc = "done"
     /\ outcome.msg \in ValidationErrors \cup {MSG_BACKEND, MSG_SHAPING, MSG_MISSING_KWARGS})
    => /\ outcome.kind = "error"
       /\ tool # "hybrid_search" => outcome.searchType # NULL

\* the search tool let the ValueError of client.hybrid_search reach its caller
C4_Witness ==
    /\ tool = "search"
    /\ pc = "done"
    /\ outcome = Raised("ValueError", ERR_SEMANTIC_CONFIGURATION)

\* C5: hybrid_search raises the semantic-configuration error exactly when neither the
\* call nor the process default supplies a non-empty name, and otherwise sends the
\* call value if it is non-empty, else the default
C5_SemanticConfigurationFallback ==
    /\ (tool = "client" /\ pc = "done" /\ outcome.msg # ERR_INPUT)
       => ((outcome.kind = "raise" /\ outcome.msg = ERR_SEMANTIC_CONFIGURATION)
           <=> (/\ args.semantic_configuration \in {NULL, ""}
                /\ defaults.default_semantic_configuration \in {NULL, ""}))
    /\ Composed
       => search_kwargs.semantic_configuration_name =
            IF args.semantic_configuration \notin {NULL, ""}
            THEN args.semantic_configuration
            ELSE defaults.default_semantic_configuration

\* an empty call value was rejected although a process default is configured
C5_Witness ==
    /\ tool = "client"
    /\ pc = "done"
    /\ args.semantic_configuration = ""
    /\ defaults.default_semantic_configuration = "semantic-config"
    /\ outcome = Raised("ValueError", ERR_SEMANTIC_CONFIGURATION)

\* the query type and the query language the call resolves to, spelled out
SemanticCall ==
    (IF args.query_type \notin {NULL, ""} THEN args.query_type
     ELSE defaults.default_query_type) = "semantic"

LanguageAvailable ==
    \/ args.query_language \notin BlankTexts
    \/ defaults.default_query_language \notin {NULL, ""}

\* the checks made before the language is looked at all pass
EarlierChecksPass ==
    /\ has_lexical(args) \/ has_vectors(args)
    /\ Truthy(effective_semantic_configuration(args, defaults))
    /\ has_lexical(args) => /\ effective_search_fields(args, defaults) # <<>>
                            /\ requested_search_mode(args, defaults) \in {"any", "all"}

\* C6: a semantic call with no query language (neither a non-blank call value nor a
\* process default) fails with a validation error, the query-language one once the
\* earlier checks pass, and makes no backend call; a semantic call with a language
\* available is not rejected for its language and its backend call carries a
\* non-empty query_language (call value first, else default) and a non-empty
\* query_rewrites (call value, else default)
C6_SemanticNeedsLanguage ==
    /\ (tool = "client" /\ SemanticCall /\ ~LanguageAvailable)
       => /\ backend_calls = 0
          /\ search_kwargs = EmptyMap
          /\ pc = "done" => /\ outcome.kind = "raise"
                            /\ outcome.msg \in ValidationErrors
                            /\ EarlierChecksPass => outcome.msg = ERR_QUERY_LANGUAGE
    /\ (tool = "client" /\ SemanticCall /\ LanguageAvailable)
       => /\ outcome.msg # ERR_QUERY_LANGUAGE
          /\ (pc = "done" /\ EarlierChecksPass) => backend_calls = 1
          /\ Composed
             => /\ search_kwargs.query_language \notin {NULL, ""}
                /\ search_kwargs.query_language =
                     IF args.query_language \notin BlankTexts
                     THEN Strip(args.query_language)
                     ELSE defaults.default_query_language
                /\ search_kwargs.query_rewrites \notin {NULL, ""}
                /\ search_kwargs.query_rewrites =
                     IF args.query_rewrites \notin BlankTexts
                     THEN Strip(args.query_rewrites)
                     ELSE defaults.default_query_rewrites

\* a semantic call that passed the earlier checks was rejected for its language
C6_Witness ==
    /\ tool = "client"
    /\ pc = "done"
    /\ SemanticCall
    /\ ~LanguageAvailable
    /\ outcome = Raised("ValueError", ERR_QUERY_LANGUAGE)
    /\ backend_calls = 0

\* C7: for a call with lexical text, semantic query type and query rewrites in effect
\* the search_mode sent and the search_mode echoed in applied are both "any",
\* whatever valid mode was asked for; for the other query types the sent mode is the
\* caller's value, else the default, else "all", lowercased
C7_SemanticForcesAnyMode ==
    (Composed /\ "search_text" \in DOMAIN search_kwargs)
    => IF SemanticCall /\ search_kwargs.query_rewrites \notin {NULL, ""}
       THEN /\ search_kwargs.search_mode = "any"
            /\ outcome.kind = "return" => payload.applied.search_mode = "any"
       ELSE /\ search_kwargs.search_mode =
                 Lower(IF args.search_mode \notin {NULL, ""} THEN args.search_mode
                       ELSE IF defaults.default_search_mode \notin {NULL, ""}
                            THEN defaults.default_search_mode
                       ELSE "all")
            /\ outcome.kind = "return"
               => payload.applied.search_mode = search_kwargs.search_mode

\* a semantic lexical call that asked for ALL was sent and echoed with "any"
C7_Witness ==
    /\ tool = "client"
    /\ pc = "done"
    /\ outcome.kind = "return"
    /\ SemanticCall
    /\ args.search_mode = "ALL"
    /\ "search_mode" \in DOMAIN search_kwargs
    /\ search_kwargs.search_mode = "any"
    /\ payload.applied.search_mode = "any"

\* the environment of a process in which no default is configured
BareEnv == [EmptyEnv EXCEPT !.credentials = TRUE]

\* the defaults of that process: only the constructor's hardcoded fallbacks
NoDefaults == ClientDefaults(BareEnv)

\* the applied entry k, or the original call's argument when the echo has no such entry
Echoed(applied, k, original) == IF k \in DOMAIN applied THEN applied[k] ELSE original

\* the arguments of the new call: every entry of the echo is given explicitly under
\* the argument it echoes (the vector_fields echo is the comma-joined field list and
\* the model's vector field names hold no comma); the query texts, the filter, the
\* ordering and the per-vector rewrites, which the echo never carries, are the
\* original call's
ResubmittedArgs(a, applied) ==
    [a EXCEPT !.top = applied.top,
              !.semantic_configuration = applied.semantic_configuration,
              !.count = applied.count,
              !.captions = applied.captions,
              !.answers = applied.answers,
              !.include_scores = applied.include_scores,
              !.search_mode = Echoed(applied, "search_mode", @),
              !.search_fields = Echoed(applied, "search_fields", @),
              !.query_type = Echoed(applied, "query_type", @),
              !.query_language = Echoed(applied, "query_language", @),
              !.query_rewrites = Echoed(applied, "query_rewrites", @),
              !.select_fields = Echoed(applied, "select", @),
              !.vector_fields = IF "vector_fields" \in DOMAIN applied
                                THEN IF applied.vector_fields = NULL THEN <<>>
                                     ELSE <<applied.vector_fields>>
                                ELSE @,
              !.vector_default_k = Echoed(applied, "vector_default_k", @),
              !.vector_default_weight = Echoed(applied, "vector_default_weight", @),
              !.vector_ks = Echoed(applied, "vector_ks", @),
              !.vector_weights = Echoed(applied, "vector_weights", @),
              !.facets = IF "facets" \in DOMAIN applied THEN FacetList(applied.facets) ELSE @,
              !.vector_filter_mode = Echoed(applied, "vector_filter_mode", @),
              !.skip = Echoed(applied, "skip", @),
              !.debug = Echoed(applied, "debug", @)]

\* a direct hybrid_search call has returned its payload
DirectCallReturned == tool = "client" /\ pc = "done" /\ outcome.kind = "return"

\* C11: when a hybrid_search call has succeeded, a new call that is given the entries
\* of its applied echo as explicit arguments, in a process where no default is
\* configured, passes validation and composes exactly the backend arguments the
\* original call sent
C11_AppliedRoundTrip ==
    DirectCallReturned
    => /\ hybrid_search_error(ResubmittedArgs(args, payload.applied), NoDefaults) = NULL
       /\ compose_search_kwargs(ResubmittedArgs(args, payload.applied), NoDefaults)
            = search_kwargs

\* a vector-only call whose query type came from the process default: the backend
\* received query_type, the echo has no such entry, and the new call sends none
C11_Witness ==
    /\ DirectCallReturned
    /\ ~has_lexical(args)
    /\ ~Truthy(args.query_type)
    /\ "query_type" \in DOMAIN search_kwargs
    /\ "query_type" \notin DOMAIN payload.applied
    /\ "query_type" \notin
         DOMAIN compose_search_kwargs(ResubmittedArgs(args, payload.applied), NoDefaults)

\* what a direct hybrid_search call with arguments a gives in a process whose
\* defaults are d when the backend answers r: the error it raises or its payload
OutcomeAlone(a, d, r) ==
    IF hybrid_search_error(a, d) # NULL THEN Raised("ValueError", hybrid_search_error(a, d))
    ELSE IF r.raises THEN Raised("HttpResponseError", MSG_BACKEND)
    ELSE Returned(NULL)

RequestDescriptors == _normalize_vector_descriptors(request.vectors)

\* the search tool was given a vectors input that yields at least one descriptor
SearchToolWithDescriptors ==
    tool = "search" /\ normalized /\ RequestDescriptors # <<>>

\* the list entry [text, k, weight, rewrites] of the model's vectors inputs
FullEntry ==
    [kind |-> "list", text |-> NULL, items |-> <<"embedded", "60", "2.0", "generative|count-3">>]

\* C26: for a list entry [text, k, weight, rewrites] the descriptor carries the
\* fourth element verbatim as its rewrites (null when absent), so that the search
\* tool passes one per-vector rewrites value per descriptor, index-aligned with
\* the texts, k values and weights, for every vectors input with at least one
\* descriptor
C26_RewritesCarried ==
    SearchToolWithDescriptors
    => /\ \A i \in 1..Len(RequestDescriptors) : Len(RequestDescriptors[i]) = 4
       /\ request.vectors = <<FullEntry>>
            => RequestDescriptors = << <<"embedded", 60, 20, "generative|count-3">> >>
       /\ outcome.exc # "IndexError"
       /\ pc \notin {"idle", "done"}
            => /\ Len(args.vector_rewrites) = Len(args.vector_texts)
               /\ Len(args.vector_ks) = Len(args.vector_texts)
               /\ Len(args.vector_weights) = Len(args.vector_texts)

\* the search tool, given the one entry [text, k, weight, rewrites], got a
\* descriptor of three elements and ended in an IndexError
C26_Witness ==
    /\ tool = "search" /\ pc = "done"
    /\ request.vectors = <<FullEntry>>
    /\ RequestDescriptors = << <<"embedded", 60, 20>> >>
    /\ outcome.kind = "raise" /\ outcome.exc = "IndexError"

\* the query type of the call, else the process default, is "semantic"
SemanticByCallOrDefault ==
    (IF args.query_type \notin {NULL, ""} THEN args.query_type ELSE defaults.default_query_type)
        = "semantic"

\* the semantic configuration of the call when it is not None, else the default
ConfigurationCallElseDefault ==
    IF args.semantic_configuration # NULL THEN args.semantic_configuration
    ELSE defaults.default_semantic_configuration

\* the query language of the call when it is a non-blank string, else the default
LanguageCallElseDefault ==
    IF args.query_language \notin BlankTexts THEN Strip(args.query_language)
    ELSE defaults.default_query_language

\* the first validation of the call that fails, in the order of the code: input,
\* semantic configuration, search fields, search mode, query language; NULL when
\* every one passes
FirstFailure ==
    IF ~LexicalPresent /\ \A i \in 1..Len(args.vector_texts) : args.vector_texts[i] \in BlankTexts
    THEN ERR_INPUT
    ELSE IF ConfigurationCallElseDefault \in {NULL, ""} THEN ERR_SEMANTIC_CONFIGURATION
    ELSE IF LexicalPresent /\ FieldsCallElseDefault = <<>> THEN ERR_SEARCH_FIELDS
    ELSE IF LexicalPresent /\ ModeCallElseDefault \notin {"any", "all"} THEN ERR_SEARCH_MODE
    ELSE IF SemanticByCallOrDefault /\ LanguageCallElseDefault \in {NULL, ""}
         THEN ERR_QUERY_LANGUAGE
    ELSE NULL

\* C30: when several validations fail in one hybrid_search call the error
\* reported is the first failing one in the fixed order input, semantic
\* configuration, search fields, search mode, query language, and no backend
\* call is made; an invalid search_mode on a semantic lexical call is rejected
\* although the mode would be overridden to "any", and the query-language error
\* is reported only when every earlier check passes
C30_FirstFailureReported ==
    DirectCallDone
    => /\ FirstFailure # NULL
            => /\ outcome.kind = "raise" /\ outcome.exc = "ValueError"
               /\ outcome.msg = FirstFailure
               /\ backend_calls = 0
       /\ FirstFailure = NULL => outcome.msg \notin ValidationErrors

\* a semantic lexical call with an invalid search mode and no query language:
\* the search-mode error is the one reported
C30_Witness ==
    /\ DirectCallDone
    /\ LexicalPresent /\ SemanticByCallOrDefault
    /\ args.search_mode = "Bogus"
    /\ LanguageCallElseDefault \in {NULL, ""}
    /\ outcome.kind = "raise" /\ outcome.msg = ERR_SEARCH_MODE

-----------------------------------------------------------------------------
(* Per-vector k and weight resolution: direct calls that vary the supplied lists *)

MaxVectors == 3

MaxSupplied == 2

\* the sequences over S of length at most n
SeqsUpTo(S, n) == UNION {[1..m -> S] : m \in 0..n}

\* n non-blank vector texts
VectorTexts(n) == [i \in 1..n |-> IF i % 2 = 1 THEN "embedded" ELSE "Firmware"]

\* the process default k and weight configured or not
EnvVectors ==
    {BaseEnv,
     [BaseEnv EXCEPT !.AZURE_SEARCH_VECTOR_DEFAULT_K = NULL,
                     !.AZURE_SEARCH_VECTOR_DEFAULT_WEIGHT = NULL]}

\* vector-only calls: a list of k values or a list of weights (in tenths), each with
\* None and 0 among its values, and the call-level defaults given or not
ArgsVectors ==
    {[BaseArgs EXCEPT !.search_text = "", !.vector_texts = VectorTexts(n),
                      !.vector_ks = kw[1], !.vector_weights = kw[2],
                      !.vector_default_k = dkw[1], !.vector_default_weight = dkw[2]] :
        n \in 1..MaxVectors,
        kw \in {<<ks, <<>>>> : ks \in SeqsUpTo({NoneNum, 0, 40, 60}, MaxSupplied)}
               \cup {<<<<>>, ws>> : ws \in SeqsUpTo({NoneNum, 0, 20}, MaxSupplied)},
        dkw \in {<<NoneNum, NoneNum>>, <<50, NoneNum>>, <<NoneNum, 15>>}}

InitVectors == InitWith(EnvVectors)

NextVectors ==
    \/ Idle /\ \E a \in ArgsVectors : ClientHybridSearch(a)
    \/ \E r \in BackendMain : BackendCall(r)
    \/ Step

SpecVectors == InitVectors /\ [][NextVectors]_vars

\* C8: with n non-blank vector texts and a supplied list vs of k values (likewise of
\* weights), the value sent for position i is vs[i] when i is within vs and vs[i] is
\* neither null nor zero, the last element of vs when vs is non-empty, i is beyond it
\* and that element is neither null nor zero, and otherwise the effective default:
\* the call's vector_default_k, else the process default, else 60 (weight: 1.0)
C8_PerVectorResolution ==
    (Composed /\ \A i \in 1..Len(args.vector_texts) : args.vector_texts[i] \notin BlankTexts)
    => LET n == Len(args.vector_texts)
           sent == search_kwargs.vector_queries
           default_k == IF args.vector_default_k # NoneNum THEN args.vector_default_k
                        ELSE IF defaults.default_vector_k # NoneNum
                             THEN defaults.default_vector_k
                        ELSE 60
           default_weight == IF args.vector_default_weight # NoneNum
                             THEN args.vector_default_weight
                             ELSE IF defaults.default_vector_weight # NoneNum
                                  THEN defaults.default_vector_weight
                             ELSE 10
       IN  /\ Len(sent) = n
           /\ \A i \in 1..n :
                /\ sent[i].k_nearest_neighbors =
                     IF i <= Len(args.vector_ks) /\ args.vector_ks[i] \notin {NoneNum, 0}
                     THEN args.vector_ks[i]
                     ELSE IF /\ args.vector_ks # <<>>
                             /\ i > Len(args.vector_ks)
                             /\ args.vector_ks[Len(args.vector_ks)] \notin {NoneNum, 0}
                          THEN args.vector_ks[Len(args.vector_ks)]
                     ELSE default_k
                /\ sent[i].weight =
                     IF i <= Len(args.vector_weights) /\ args.vector_weights[i] \notin {NoneNum, 0}
                     THEN args.vector_weights[i]
                     ELSE IF /\ args.vector_weights # <<>>
                             /\ i > Len(args.vector_weights)
                             /\ args.vector_weights[Len(args.vector_weights)] \notin {NoneNum, 0}
                          THEN args.vector_weights[Len(args.vector_weights)]
                     ELSE default_weight
           /\ (n = 3 /\ args.vector_ks = <<60>>)
              => [i \in 1..n |-> sent[i].k_nearest_neighbors] = <<60, 60, 60>>
           /\ (n = 3 /\ args.vector_ks = <<60, 40>>)
              => [i \in 1..n |-> sent[i].k_nearest_neighbors] = <<60, 40, 40>>

\* three vectors with the k list [60, 40] were sent with 60, 40, 40
C8_Witness ==
    /\ pc = "backend"
    /\ Len(args.vector_texts) = 3
    /\ args.vector_ks = <<60, 40>>
    /\ [i \in 1..3 |-> search_kwargs.vector_queries[i].k_nearest_neighbors] = <<60, 40, 40>>

-----------------------------------------------------------------------------
(* Captions: direct calls over every captions spec of bounded length *)

MaxAtoms == 4

CaptionAtoms == {"extractive", "highlight-", "HIGHLIGHT-", "true", "|", " "}

ArgsCaptions ==
    {[BaseArgs EXCEPT !.captions = c] : c \in {NoneAtoms} \cup SeqsUpTo(CaptionAtoms, MaxAtoms)}

InitCaptions == InitWith({BaseEnv})

NextCaptions ==
    \/ Idle /\ \E a \in ArgsCaptions : ClientHybridSearch(a)
    \/ \E r \in BackendMain : BackendCall(r)
    \/ Step

SpecCaptions == InitCaptions /\ [][NextCaptions]_vars

\* C9: for the call's captions spec, _parse_semantic_captions returns query_caption
\* equal to the last segment that is not a highlight- segment (absent if there is
\* none), query_caption_highlight_enabled equal to (suffix = true) of the last
\* highlight- segment (absent if there is none) and a highlight flag that is true
\* only in that case with suffix true; an empty spec gives no flags and highlight
\* false; the backend call carries these flags and never a captions key
C9_CaptionsParsed ==
    tool = "client"
    => LET spec == args.captions
           given == spec # NoneAtoms /\ spec # <<>>
           segs == IF given THEN Segments(spec) ELSE <<>>
           hl == {i \in 1..Len(segs) : AtomLower(segs[i][1]) = "highlight-"}
           other == (1..Len(segs)) \ hl
           lastOf(S) == CHOOSE i \in S : \A j \in S : j <= i
           suffixTrue == hl # {} /\ LowerAtoms(Tail(segs[lastOf(hl)])) = <<"true">>
           r == _parse_semantic_captions(spec)
       IN  /\ "query_caption" \in DOMAIN r.payload <=> other # {}
           /\ other # {} => r.payload.query_caption = segs[lastOf(other)]
           /\ "query_caption_highlight_enabled" \in DOMAIN r.payload <=> hl # {}
           /\ hl # {} => r.payload.query_caption_highlight_enabled = suffixTrue
           /\ r.highlight = suffixTrue
           /\ DOMAIN r.payload \subseteq {"query_caption", "query_caption_highlight_enabled"}
           /\ ~given => r.payload = EmptyMap /\ ~r.highlight
           /\ Composed
              => /\ "captions" \notin DOMAIN search_kwargs
                 /\ \A k \in {"query_caption", "query_caption_highlight_enabled"} :
                      /\ k \in DOMAIN search_kwargs <=> k \in DOMAIN r.payload
                      /\ k \in DOMAIN r.payload => search_kwargs[k] = r.payload[k]

\* the spec "extractive|HIGHLIGHT-true" reached the backend as its two flags
C9_Witness ==
    /\ pc = "backend"
    /\ args.captions = <<"extractive", "|", "HIGHLIGHT-", "true">>
    /\ search_kwargs.query_caption = <<"extractive">>
    /\ search_kwargs.query_caption_highlight_enabled = TRUE
    /\ "captions" \notin DOMAIN search_kwargs

-----------------------------------------------------------------------------
(* Answers: direct calls over every answers spec of bounded length *)

AnswerAtoms == {"extractive", "count-", "threshold-", "3", "0.5", "|", " "}

ArgsAnswers ==
    {[BaseArgs EXCEPT !.answers = c] : c \in {NoneAtoms} \cup SeqsUpTo(AnswerAtoms, MaxAtoms)}

InitAnswers == InitWith({BaseEnv})

NextAnswers ==
    \/ Idle /\ \E a \in ArgsAnswers : ClientHybridSearch(a)
    \/ \E r \in BackendMain : BackendCall(r)
    \/ Step

SpecAnswers == InitAnswers /\ [][NextAnswers]_vars

\* C10: for the call's answers spec, _parse_semantic_answers never raises; the count
\* (threshold) key is present exactly when some count- (threshold-) segment is well
\* formed and holds the value of the last such segment, a malformed segment sets
\* nothing, the answer type and the other keys are returned all the same, and the
\* enclosing hybrid_search call goes on to its single backend call
C10_AnswersNeverRaise ==
    tool = "client"
    => LET spec == args.answers
           given == spec # NoneAtoms /\ spec # <<>>
           segs == IF given THEN Segments(spec) ELSE <<>>
           counts == {i \in 1..Len(segs) : AtomLower(segs[i][1]) = "count-"}
           thresholds == {i \in 1..Len(segs) : AtomLower(segs[i][1]) = "threshold-"}
           other == (1..Len(segs)) \ (counts \cup thresholds)
           goodCounts == {i \in counts : IntParses(Tail(LowerAtoms(segs[i])))}
           goodThresholds == {i \in thresholds : FloatParses(Tail(LowerAtoms(segs[i])))}
           lastOf(S) == CHOOSE i \in S : \A j \in S : j <= i
           r == _parse_semantic_answers(spec)
       IN  /\ ~r.raised
           /\ "query_answer_count" \in DOMAIN r.payload <=> goodCounts # {}
           /\ goodCounts # {}
              => r.payload.query_answer_count = IntOf(Tail(LowerAtoms(segs[lastOf(goodCounts)])))
           /\ "query_answer_threshold" \in DOMAIN r.payload <=> goodThresholds # {}
           /\ goodThresholds # {}
              => r.payload.query_answer_threshold =
                   FloatOf(Tail(LowerAtoms(segs[lastOf(goodThresholds)])))
           /\ "query_answer" \in DOMAIN r.payload <=> other # {}
           /\ other # {} => r.payload.query_answer = segs[lastOf(other)]
           /\ outcome.msg # MSG_INVALID_INT
           /\ pc = "done" => backend_calls = 1
           /\ Composed
              => \A k \in {"query_answer", "query_answer_count", "query_answer_threshold"} :
                   /\ k \in DOMAIN search_kwargs <=> k \in DOMAIN r.payload
                   /\ k \in DOMAIN r.payload => search_kwargs[k] = r.payload[k]

\* the spec "extractive|count-extractive" (a malformed count) reached the backend
\* with its answer type and no count
C10_Witness ==
    /\ pc = "done"
    /\ args.answers = <<"extractive", "|", "count-", "extractive">>
    /\ backend_calls = 1
    /\ search_kwargs.query_answer = <<"extractive">>
    /\ "query_answer_count" \notin DOMAIN search_kwargs

-----------------------------------------------------------------------------
(* formatting.py: the two renderings of a result payload.  A rendered text is *)
(* the sequence of its lines and a line the sequence of its parts.           *)

\* line 20: the text returned for an empty item list
NoResultsText(search_type) == <<<<"No results found for your query using ", search_type, ".">>>>

\* lines 28-32: the four lines of the item at position i
ItemLines(items, i) ==
    << <<"### ", i, ". ", items[i].title>>, <<"Score: ", items[i].score, "\n">>,
       <<items[i].content, "\n">>, <<"---\n">> >>

RECURSIVE AllItemLines(_, _)
AllItemLines(items, i) ==
    IF i > Len(items) THEN <<>> ELSE ItemLines(items, i) \o AllItemLines(items, i + 1)

\* lines 22-41: the text for a non-empty item list; the lines of the applied entries
\* are kept as the set of their key/value pairs
ResultsText(results_payload, search_type) ==
    << <<"## ", search_type, " Results\n">> >>
    \o (IF results_payload.count # NoneNum
        THEN << <<"Total matches reported by Azure Search: ", results_payload.count, "\n">> >>
        ELSE <<>>)
    \o AllItemLines(results_payload.items, 1)
    \o (IF results_payload.applied # EmptyMap
        THEN << <<"### Applied search parameters\n">>,
                {<<k, results_payload.applied[k]>> : k \in DOMAIN results_payload.applied},
                <<"">> >>
        ELSE <<>>)

\* variant: the header and the total are rendered when a total is known, items or not
format_results_as_markdown_total_first(results_payload, search_type) ==
    IF results_payload.items = <<>> /\ results_payload.count = NoneNum
    THEN [raised |-> FALSE, text |-> NoResultsText(search_type)]
    ELSE IF \E i \in 1..Len(results_payload.items) :
              ~({"title", "score", "content"} \subseteq DOMAIN results_payload.items[i])
    THEN [raised |-> TRUE, text |-> <<>>]
    ELSE [raised |-> FALSE, text |-> ResultsText(results_payload, search_type)]

\* format_results_as_markdown, lines 8-41: a payload that is a plain list is the
\* record with no count and no applied entries (lines 15-17); an item without
\* title, score or content raises KeyError (lines 29-31)
format_results_as_markdown(results_payload, search_type) ==
    IF results_payload.items = <<>>
    THEN [raised |-> FALSE, text |-> NoResultsText(search_type)]
    ELSE IF \E i \in 1..Len(results_payload.items) :
              ~({"title", "score", "content"} \subseteq DOMAIN results_payload.items[i])
    THEN [raised |-> TRUE, text |-> <<>>]
    ELSE [raised |-> FALSE, text |-> ResultsText(results_payload, search_type)]

\* the formatter called on a payload, as tools/hybrid.py line 224 does
FormatResultsAsMarkdown(results_payload, search_type) ==
    /\ pc = "idle"
    /\ tool' = "format_results_as_markdown"
    /\ payload' = results_payload
    /\ LET r == format_results_as_markdown(results_payload, search_type)
       IN  Finish(IF r.raised THEN Raised("KeyError", NULL)
                  ELSE [kind |-> "return", exc |-> NULL, msg |-> r.text,
                        searchType |-> search_type])
    /\ UNCHANGED <<search_client, defaults, args, search_kwargs, backend_calls,
                   results_page, normalized, request>>

\* the labels the tools pass to the formatters
SearchTypes == {"Keyword Search", "Vector Search", "Hybrid Search", "Search"}

\* the label each tool passes: keyword.py 40, vector.py 40, search.py 362
ToolLabel(t) ==
    CASE t = "keyword_search" -> "Keyword Search"
      [] t = "vector_search" -> "Vector Search"
      [] t = "search" -> "Search"
      [] OTHER -> NULL

ItemA == [title |-> "Doc1", content |-> "Alpha", score |-> 12]

ItemB == [title |-> "Doc2", content |-> "Beta", score |-> 8]

\* the payloads given to the markdown formatter: no item, items, an item without title
PayloadsFormatting ==
    {[items |-> its, count |-> c, facets |-> NULL, applied |-> ap] :
        its \in {<<>>, <<ItemA>>, <<ItemA, ItemB>>, <<[content |-> "Alpha", score |-> 12]>>},
        c \in {NoneNum, 0, 42},
        ap \in {EmptyMap, [top |-> 5, count |-> TRUE]}}

\* lexical calls of the search tool that ask for the total or not
ArgsFormatting ==
    {[BaseArgs EXCEPT !.search_text = " firmware ", !.semantic_configuration = "my-config",
                      !.search_fields = <<" chunk ">>, !.count = c] : c \in BOOLEAN}

\* the backend answers with no row (and a total of 0 or 42), with rows, or fails
BackendFormatting ==
    {BackendFailure,
     [raises |-> FALSE, rows |-> <<>>, count |-> 0, facets |-> NULL],
     [raises |-> FALSE, rows |-> <<>>, count |-> 42, facets |-> NULL],
     [raises |-> FALSE, rows |-> <<Row1, Row2>>, count |-> 42, facets |-> NULL]}

InitFormatting == InitWith({BaseEnv})

NextFormatting ==
    \/ Idle /\ \E p \in PayloadsFormatting, t \in SearchTypes : FormatResultsAsMarkdown(p, t)
    \/ Idle /\ \E a \in ArgsFormatting : SearchTool(a, <<>>)
    \/ Idle /\ \E q \in Queries, r \in BackendFormatting, shaped \in BOOLEAN :
                 KeywordSearchTool(q, r, shaped)
    \/ Idle /\ \E q \in Queries, r \in BackendFormatting, shaped \in BOOLEAN :
                 VectorSearchTool(q, r, shaped)
    \/ \E r \in BackendFormatting : BackendCall(r)
    \/ \E shaped \in BOOLEAN : FormatPayload(shaped)
    \/ Step

SpecFormatting == InitFormatting /\ [][NextFormatting]_vars

\* a tool has returned the structured rendering of its payload
StructuredReturned ==
    /\ tool \in {"keyword_search", "vector_search", "search"}
    /\ pc = "done"
    /\ outcome.kind = "return"

\* C12: for a payload without items the human-readable rendering is exactly the
\* sentence "No results found for your query using <searchType>." whatever the count
\* and the applied entries are, and the structured rendering has an empty item list,
\* the label of the tool, and a count that is null unless the call asked for the
\* total (and then the total the backend reported)
C12_EmptyItemsRendering ==
    /\ (tool = "format_results_as_markdown" /\ pc = "done" /\ payload.items = <<>>)
       => /\ outcome.kind = "return"
          /\ outcome.msg = <<<<"No results found for your query using ",
                               outcome.searchType, ".">>>>
    /\ (StructuredReturned /\ payload.items = <<>>)
       => LET envelope == format_results(payload, outcome.searchType)
          IN  /\ envelope.items = <<>>
              /\ envelope.searchType = ToolLabel(tool)
              /\ envelope.count = IF tool = "search" /\ args.count
                                  THEN results_page.count ELSE NoneNum

\* the sentence was returned for an empty payload that carries a total and applied
\* entries
C12_Witness ==
    /\ tool = "format_results_as_markdown"
    /\ pc = "done"
    /\ payload.items = <<>>
    /\ payload.count = 42
    /\ payload.applied # EmptyMap
    /\ outcome.msg = NoResultsText("Hybrid Search")

-----------------------------------------------------------------------------
(* utils.py: the sequence normalizers called on a value written in one shape *)

\* one of the normalizers of lines 53-62 called on a value
NormalizeSequence(value, cast) ==
    /\ pc = "idle"
    /\ tool' = "_normalize_sequence"
    /\ request' = [value |-> value, cast |-> cast]
    /\ LET r == _normalize_sequence(value, cast)
       IN  Finish(IF r.raised THEN Raised("ValueError", MSG_INVALID_INT)
                  ELSE [kind |-> "return", exc |-> NULL, msg |-> r.items, searchType |-> NULL])
    /\ UNCHANGED <<search_client, defaults, args, search_kwargs, backend_calls,
                   results_page, payload, normalized>>

\* the longest list the normalizer is given
MaxItems == 3

\* the elements of those lists: None, words with and without surrounding or inner
\* blanks, a number
Elements ==
    {NoneAtoms, <<"chunk">>, <<" ", "Full", " ", "Name", " ">>, <<"60">>}

Lists == SeqsUpTo(Elements, MaxItems)

RECURSIVE JoinWith(_, _)
JoinWith(parts, sep) ==
    IF parts = <<>> THEN <<>>
    ELSE IF Len(parts) = 1 THEN parts[1]
    ELSE parts[1] \o sep \o JoinWith(Tail(parts), sep)

\* the four shapes in which a caller can write the list L, with what stands for a
\* None element in each: an empty part of a delimited text, null in a JSON array;
\* a list of numbers can also be written as a JSON array of numbers, a single number
\* as a scalar, and no list at all as None
Written(shape, L) ==
    CASE shape = "list" -> [kind |-> "list", items |-> L]
      [] shape = "comma" ->
           [kind |-> "str",
            text |-> JoinWith([i \in 1..Len(L) |-> IF L[i] = NoneAtoms THEN <<>> ELSE L[i]],
                              <<",">>)]
      [] shape = "newline" ->
           [kind |-> "str",
            text |-> JoinWith([i \in 1..Len(L) |-> IF L[i] = NoneAtoms THEN <<>> ELSE L[i]],
                              <<"\n">>)]
      [] shape = "json" ->
           [kind |-> "str",
            text |-> <<"[">>
                     \o JoinWith([i \in 1..Len(L) |->
                                    IF L[i] = NoneAtoms THEN <<"null">>
                                    ELSE <<"\"">> \o L[i] \o <<"\"">>], <<",", " ">>)
                     \o <<"]">>]
      [] shape = "numbers" ->
           [kind |-> "str",
            text |-> <<"[">>
                     \o JoinWith([i \in 1..Len(L) |->
                                    IF L[i] = NoneAtoms THEN <<"null">> ELSE L[i]], <<",">>)
                     \o <<"]">>]
      [] shape = "scalar" -> [kind |-> "scalar", item |-> L[1]]
      [] OTHER -> [kind |-> "none"]

Shapes(L) ==
    {"list", "comma", "newline", "json"}
    \cup (IF \A i \in 1..Len(L) : L[i] \in {NoneAtoms, <<"60">>} THEN {"numbers"} ELSE {})
    \cup (IF L = << <<"60">> >> THEN {"scalar"} ELSE {})
    \cup (IF L = <<>> THEN {"none"} ELSE {})

InitNormalize == InitWith({BaseEnv})

NextNormalize ==
    \/ Idle /\ \E L \in Lists : \E shape \in Shapes(L), cast \in {"str", "int"} :
                 NormalizeSequence(Written(shape, L), cast)
    \/ NextRequest

SpecNormalize == InitNormalize /\ [][NextNormalize]_vars

\* C13: whichever way a list is written (native list, comma-delimited text,
\* newline-delimited text, JSON-array text, a single bare text or scalar, or None
\* for no list) the normalizer returns the same list: the elements that are not None,
\* in order, each cast (trimmed text, or the integer a trimmed text denotes); and it
\* raises in one shape exactly when it raises in the others
C13_ShapesNormalizeAlike ==
    (tool = "_normalize_sequence" /\ pc = "done")
    => \A L \in Lists : \A shape \in Shapes(L) :
         request.value = Written(shape, L)
         => LET present == SelectSeq(L, LAMBDA e : e # NoneAtoms)
                trimmed == [i \in 1..Len(present) |-> StripText(present[i])]
            IN  IF request.cast = "str"
                THEN outcome.kind = "return" /\ outcome.msg = trimmed
                ELSE IF \A i \in 1..Len(trimmed) : trimmed[i] = <<"60">>
                THEN /\ outcome.kind = "return"
                     /\ outcome.msg = [i \in 1..Len(trimmed) |-> 60]
                ELSE outcome.kind = "raise"

\* the JSON-array text ["chunk", null, " Full Name "] gave the two trimmed names
C13_Witness ==
    /\ tool = "_normalize_sequence"
    /\ pc = "done"
    /\ request.cast = "str"
    /\ request.value =
         [kind |-> "str",
          text |-> <<"[", "\"", "chunk", "\"", ",", " ", "null", ",", " ",
                     "\"", " ", "Full", " ", "Name", " ", "\"", "]">>]
    /\ outcome.msg = << <<"chunk">>, <<"Full", " ", "Name">> >>

-----------------------------------------------------------------------------
(* utils.py: _normalize_vector_descriptors on every shape of input.  A vectors *)
(* text is a sequence of atoms: a space, a newline, a comma, a bracket, or a   *)
(* whole JSON literal or bare word (the texts JsonLiteral reads, and words).   *)

NoEntry == [kind |-> "none", text |-> NULL, items |-> <<>>]

TextEntry(text) == [kind |-> "str", text |-> text, items |-> <<>>]

TupleEntry(items) == [kind |-> "list", text |-> NULL, items |-> items]

\* the atoms whose text starts with "[" and ends with "]"
Bracketed ==
    {"[\"embedded\", 60, 2.0]", "[\"firmware\", \"sixty\", 1.5]",
     "[\"embedded\", 60, \"heavy\"]", "[\"  \", 60]", "[embedded, 60]"}

\* the entries that the elements of a decoded array of strings and numbers are
ElementEntries(items) ==
    [i \in 1..Len(items) |-> IF items[i] = NULL THEN NoEntry ELSE TextEntry(items[i])]

\* json.loads of a whole vectors text, lines 167-175: one array literal, or brackets
\* around literals separated by commas; anything else does not decode
JsonVectors(stripped) ==
    IF Len(stripped) = 1
    THEN IF JsonLiteral(stripped[1]).ok /\ JsonLiteral(stripped[1]).entry.kind = "list"
         THEN [ok |-> TRUE, entries |-> ElementEntries(JsonLiteral(stripped[1]).entry.items)]
         ELSE [ok |-> FALSE, entries |-> <<>>]
    ELSE IF stripped[1] = "[" /\ stripped[Len(stripped)] = "]"
    THEN LET inner == SubSeq(stripped, 2, Len(stripped) - 1)
             pieces == JsonPieces(inner, FALSE, <<>>)
             literals == [i \in 1..Len(pieces) |-> StripText(pieces[i])]
         IN  IF StripText(inner) = <<>> THEN [ok |-> TRUE, entries |-> <<>>]
             ELSE IF \A i \in 1..Len(literals) :
                       Len(literals[i]) = 1 /\ JsonLiteral(literals[i][1]).ok
             THEN [ok |-> TRUE,
                   entries |-> [i \in 1..Len(literals) |-> JsonLiteral(literals[i][1]).entry]]
             ELSE [ok |-> FALSE, entries |-> <<>>]
    ELSE [ok |-> FALSE, entries |-> <<>>]

\* lines 177-179: every non-blank line, trimmed, is an entry (a line of the model's
\* texts holds one atom between its blanks)
LineEntries(text) ==
    LET lines == SplitLines(text)
        kept == SelectSeq([i \in 1..Len(lines) |-> StripText(lines[i])],
                          LAMBDA line : line # <<>>)
    IN  [i \in 1..Len(kept) |-> TextEntry(kept[i][1])]

\* _normalize_vector_descriptors on None, a text, a native list or another scalar,
\* lines 156-185
_normalize_vectors(value) ==
    IF value.kind = "none" THEN <<>>
    ELSE IF value.kind = "list" THEN _normalize_vector_descriptors(value.items)
    ELSE IF value.kind = "scalar" THEN _parse_entry(TextEntry(value.text))
    ELSE LET stripped == StripText(value.text)
         IN  IF stripped = <<>> THEN <<>>
             ELSE IF /\ stripped[1] \in Bracketed \cup {"["}
                     /\ stripped[Len(stripped)] \in Bracketed \cup {"]"}
                     /\ JsonVectors(stripped).ok
             THEN _normalize_vector_descriptors(JsonVectors(stripped).entries)
             ELSE _normalize_vector_descriptors(LineEntries(value.text))

\* the longest list of entries a caller writes
MaxEntries == 3

\* the entries: none, bare texts (plain, padded, blank, bracketed but not JSON), and
\* [text, k, weight] tuples (all parsable, k unparsable, weight unparsable, blank text)
VectorEntries ==
    {NoEntry, TextEntry("embedded"), TextEntry(" firmware "), TextEntry("  "),
     TextEntry("[embedded, 60]"),
     TupleEntry(<<"embedded", "60", "2.0">>), TupleEntry(<<"firmware", "sixty", "1.5">>),
     TupleEntry(<<"embedded", "60", "heavy">>), TupleEntry(<<"  ", "60">>)}

\* json.dumps of an entry
EntryLiteral(e) ==
    CASE e = NoEntry -> "null"
      [] e = TextEntry("embedded") -> "\"embedded\""
      [] e = TextEntry(" firmware ") -> "\" firmware \""
      [] e = TextEntry("  ") -> "\"  \""
      [] e = TextEntry("[embedded, 60]") -> "\"[embedded, 60]\""
      [] e = TupleEntry(<<"embedded", "60", "2.0">>) -> "[\"embedded\", 60, 2.0]"
      [] e = TupleEntry(<<"firmware", "sixty", "1.5">>) -> "[\"firmware\", \"sixty\", 1.5]"
      [] e = TupleEntry(<<"embedded", "60", "heavy">>) -> "[\"embedded\", 60, \"heavy\"]"
      [] OTHER -> "[\"  \", 60]"

\* the line a caller writes for an entry: nothing for None, the text itself, or the
\* JSON literal of a tuple
EntryLine(e) ==
    CASE e = NoEntry -> <<>>
      [] e = TextEntry(" firmware ") -> <<" ", "firmware", " ">>
      [] e = TextEntry("  ") -> <<" ", " ">>
      [] e.kind = "str" -> <<e.text>>
      [] OTHER -> <<EntryLiteral(e)>>

\* the entries written as a native list, one per line, or as a JSON array
WrittenVectors(shape, entries) ==
    CASE shape = "list" -> [kind |-> "list", items |-> entries]
      [] shape = "newline" ->
           [kind |-> "str",
            text |-> JoinWith([i \in 1..Len(entries) |-> EntryLine(entries[i])], <<"\n">>)]
      [] OTHER ->
           [kind |-> "str",
            text |-> <<"[">>
                     \o JoinWith([i \in 1..Len(entries) |-> <<EntryLiteral(entries[i])>>],
                                 <<",", " ">>)
                     \o <<"]">>]

\* _normalize_vector_descriptors called on the entries written in one shape
NormalizeVectorDescriptors(entries, shape) ==
    /\ pc = "idle"
    /\ tool' = "_normalize_vector_descriptors"
    /\ request' = [entries |-> entries, shape |-> shape,
                   value |-> WrittenVectors(shape, entries)]
    /\ Finish([kind |-> "return", exc |-> NULL,
               msg |-> _normalize_vectors(WrittenVectors(shape, entries)),
               searchType |-> NULL])
    /\ UNCHANGED <<search_client, defaults, args, search_kwargs, backend_calls,
                   results_page, payload, normalized>>

InitDescriptors == InitWith({BaseEnv})

NextDescriptors ==
    \/ Idle /\ \E entries \in SeqsUpTo(VectorEntries, MaxEntries) :
                 \E shape \in {"list", "newline", "json"} :
                   NormalizeVectorDescriptors(entries, shape)
    \/ NextRequest

SpecDescriptors == InitDescriptors /\ [][NextDescriptors]_vars

\* the entries of the input as the parser reads it: a text that is one line holding
\* one JSON array is a JSON-array text, and its elements are the entries
EntriesRead ==
    IF /\ request.shape = "newline"
       /\ Len(StripText(request.value.text)) = 1
       /\ JsonLiteral(StripText(request.value.text)[1]).ok
    THEN ElementEntries(JsonLiteral(StripText(request.value.text)[1]).entry.items)
    ELSE request.entries

\* the trimmed text of an entry ("" for None and for an empty tuple)
TextOf(e) ==
    IF e.kind = "str" THEN Strip(e.text)
    ELSE IF e.kind = "list" /\ e.items # <<>> THEN Strip(e.items[1])
    ELSE ""

-----------------------------------------------------------------------------
(* Facets: calls that give the facet expressions in every shape *)

\* the most facet expressions a call gives
MaxFacets == 2

\* None, a bare field name, and expressions with options after commas, trimmed
\* and padded
FacetExpressions ==
    {NoneAtoms, <<"Location">>, <<"DomainUserLogin", ",", "count:10", ",", "sort:desc">>,
     <<"Location", ",", "count:5">>, <<" ", "Location", ",", "count:5", " ">>}

\* the expressions written as a native list, one per line (nothing for None), or as
\* a JSON array of strings (null for None)
WrittenFacets(shape, L) ==
    CASE shape = "list" -> FacetList(L)
      [] shape = "newline" ->
           [kind |-> "str",
            text |-> JoinWith([i \in 1..Len(L) |-> IF L[i] = NoneAtoms THEN <<>> ELSE L[i]],
                              <<"\n">>)]
      [] OTHER ->
           [kind |-> "str",
            text |-> <<"[">>
                     \o JoinWith([i \in 1..Len(L) |->
                                    IF L[i] = NoneAtoms THEN <<"null">>
                                    ELSE <<"\"">> \o L[i] \o <<"\"">>], <<",", " ">>)
                     \o <<"]">>]

FacetShapes == {"list", "newline", "json"}

\* lexical calls that differ in their facets only
ArgsFacets ==
    {[BaseArgs EXCEPT !.search_text = " firmware ", !.semantic_configuration = "my-config",
                      !.search_fields = <<" chunk ">>, !.query_type = "simple",
                      !.facets = WrittenFacets(shape, L)] :
        shape \in FacetShapes, L \in SeqsUpTo(FacetExpressions, MaxFacets)}
    \cup {[BaseArgs EXCEPT !.search_text = " firmware ",
                           !.semantic_configuration = "my-config",
                           !.search_fields = <<" chunk ">>]}

InitFacets == InitWith({BaseEnv})

NextFacets ==
    \/ Idle /\ \E a \in ArgsFacets : ClientHybridSearch(a)
    \/ Idle /\ \E a \in ArgsFacets : SearchTool(a, <<>>)
    \/ \E r \in BackendMain : BackendCall(r)
    \/ \E shaped \in BOOLEAN : FormatPayload(shaped)
    \/ Step

SpecFacets == InitFacets /\ [][NextFacets]_vars

-----------------------------------------------------------------------------
(* Result shaping: direct calls over row streams, projections, score and caption *)
(* preferences                                                                   *)

\* the longest row stream the backend returns
MaxRows == 2

\* a row that has no usable value, and a row with a caption
RowBlank == [title |-> "", chunk |-> NULL]

RowCaption ==
    [chunk |-> "Gamma"] @@ ("@search.score" :> 5)
    @@ ("@search.captions" :> <<[style |-> "map", text |-> " chunk ", highlights |-> ""]>>)

RowSet == {Row1, Row2, RowBlank, RowCaption}

BackendShaping ==
    {BackendFailure}
    \cup {[raises |-> FALSE, rows |-> rows, count |-> Len(rows), facets |-> NULL] :
            rows \in SeqsUpTo(RowSet, MaxRows)}

ArgsShaping ==
    {[BaseArgs EXCEPT !.search_text = " firmware ", !.semantic_configuration = "my-config",
                      !.search_fields = <<" chunk ">>, !.select_fields = sel,
                      !.include_scores = sc, !.captions = cap] :
        sel \in {<<>>, <<"chunk">>, <<"FullName", "missing">>},
        sc \in BOOLEAN,
        cap \in {NoneAtoms, <<"extractive">>, <<"extractive", "|", "highlight-", "true">>}}

\* with and without default select fields
InitShaping == InitWith({BaseEnv, [BaseEnv EXCEPT !.AZURE_SEARCH_SELECT_FIELDS = <<>>]})

NextShaping ==
    \/ Idle /\ \E a \in ArgsShaping : ClientHybridSearch(a)
    \/ \E r \in BackendShaping : BackendCall(r)
    \/ Step

SpecShaping == InitShaping /\ [][NextShaping]_vars

\* C16: the items of a returned payload are as many as the rows of the backend's
\* stream and in the same order, and the item at each position is what shaping that
\* row alone gives, whatever the select fields, the score flag and the caption
\* preferences are
C16_OneItemPerRow ==
    DirectCallReturned
    => /\ Len(payload.items) = Len(results_page.rows)
       /\ \A i \in 1..Len(results_page.rows) :
            payload.items[i] =
              _format_results(<<results_page.rows[i]>>, effective_select_fields(args, defaults),
                              args.include_scores, caption_preferences(args))[1]

\* a row without any usable value, shaped without scores, still gave its (empty)
\* item, ahead of the item of the row that followed it
C16_Witness ==
    /\ DirectCallReturned
    /\ results_page.rows = <<RowBlank, Row1>>
    /\ ~args.include_scores
    /\ Len(payload.items) = 2
    /\ payload.items[1] = EmptyMap
    /\ payload.items[2] # EmptyMap

\* the select list _format_results is given
SelectList == effective_select_fields(args, defaults)

\* the keys of a row or of an item that start with "@"
AtKeys == {"@search.score", "@search.rerankerScore", "@search.captions", "@search.caption"}

\* the fields of a row that hold a value other than None and ""
UsableFields(row) == {k \in DOMAIN row \ AtKeys : row[k] \notin {NULL, ""}}

\* the selected fields that are usable in the row
SelectedFields(row) == {SelectList[j] : j \in 1..Len(SelectList)} \cap UsableFields(row)

\* the fields of an item, its "@search.*" keys apart
ItemFields(item) == DOMAIN item \ AtKeys

\* C22 as stated: with a non-empty select list every item holds, apart from its
\* "@search.*" keys, only fields named in the select list, each with the row's
\* usable value; a selected field that is missing, null or empty in the row is
\* absent, and no unselected row field ever appears
C22_OnlySelectedFields ==
    (DirectCallReturned /\ SelectList # <<>>)
    => \A i \in 1..Len(payload.items) :
          /\ ItemFields(payload.items[i]) = SelectedFields(results_page.rows[i])
          /\ \A k \in ItemFields(payload.items[i]) :
                payload.items[i][k] = results_page.rows[i][k]

\* C22, amended: with a non-empty select list an item holds, apart from its
\* "@search.*" keys, exactly the selected fields that are usable in the row, each
\* with the row's value, unless no selected field is usable and neither a caption
\* nor a score was added: then the item holds every usable field of the row,
\* selected or not
C22_OnlySelectedFieldsUnlessEmpty ==
    (DirectCallReturned /\ SelectList # <<>>)
    => \A i \in 1..Len(payload.items) :
          LET item == payload.items[i]
              row == results_page.rows[i]
              fallback == /\ SelectedFields(row) = {}
                          /\ "@search.caption" \notin DOMAIN item
                          /\ ~(args.include_scores /\ "@search.score" \in DOMAIN row)
          IN  /\ ItemFields(item) = IF fallback THEN UsableFields(row) ELSE SelectedFields(row)
              /\ \A k \in ItemFields(item) : item[k] = row[k]

\* a row with a title, a chunk and a name, shaped under the select list
\* FullName, missing with scores: the item has the name and the score only
C22_Witness ==
    /\ DirectCallReturned
    /\ SelectList = <<"FullName", "missing">>
    /\ args.include_scores
    /\ Len(results_page.rows) >= 1 /\ results_page.rows[1] = Row1
    /\ DOMAIN payload.items[1] = {"FullName", "@search.score"}
    /\ payload.items[1].FullName = "Ann"

\* projection, captions and scores left the item of the i-th row empty
FallbackRan(i) ==
    LET row == results_page.rows[i]
        prefs == caption_preferences(args)
    IN  /\ DOMAIN ProjectedEntry(row, SelectList) = {}
        /\ ~(prefs.requested /\ caption_value(row, prefs.highlight) \notin {NULL, ""})
        /\ ~(args.include_scores /\ DOMAIN row \cap {"@search.score", "@search.rerankerScore"} # {})

\* C23: whenever projection, captions and scores leave a shaped item empty, the
\* fallback copies every non-"@", non-empty field of the row into the item and
\* the item then holds a score key, whatever include_scores is; no shaped item is
\* ever returned empty
C23_FallbackLeavesScore ==
    DirectCallReturned
    => \A i \in 1..Len(payload.items) :
          /\ FallbackRan(i)
                => /\ ItemFields(payload.items[i]) = UsableFields(results_page.rows[i])
                   /\ \A k \in ItemFields(payload.items[i]) :
                         payload.items[i][k] = results_page.rows[i][k]
                   /\ "@search.score" \in DOMAIN payload.items[i]
          /\ DOMAIN payload.items[i] # {}

\* a row shaped without scores under a select list that names none of its fields:
\* the fallback copied its title and chunk and added no score key
C23_Witness ==
    /\ DirectCallReturned
    /\ ~args.include_scores
    /\ SelectList = <<"FullName", "missing">>
    /\ results_page.rows = <<Row2>>
    /\ FallbackRan(1)
    /\ DOMAIN payload.items[1] = {"title", "chunk"}

-----------------------------------------------------------------------------
(* Vector queries: direct calls that vary the vector texts (blank ones      *)
(* included) and the per-vector lists                                       *)

MaxTexts == 2

\* a blank text, two texts equal to the lexical query but for case and padding,
\* and one that differs
TextChoices == {"  ", " firmware ", "Firmware", "embedded"}

\* no per-vector rewrites, an empty one, and a real one
RewriteChoices == {NULL, "", "generative|count-3"}

\* the vector fields configured or not
EnvQueries ==
    {[BaseEnv EXCEPT !.AZURE_SEARCH_VECTOR_FIELDS = vf] : vf \in {<<>>, <<"content_vector">>}}

ArgsQueries ==
    {[BaseArgs EXCEPT !.search_text = st, !.vector_texts = vt, !.query_type = qt,
                      !.vector_rewrites = vr, !.vector_ks = kw[1], !.vector_weights = kw[2],
                      !.vector_fields = vf] :
        st \in {"", " firmware "},
        vt \in SeqsUpTo(TextChoices, MaxTexts) \ {<<>>},
        qt \in {NULL, "semantic"},
        vr \in SeqsUpTo(RewriteChoices, MaxSupplied),
        kw \in {<<<<>>, <<>>>>, <<<<40, 60>>, <<20, 15>>>>},
        vf \in {<<>>, <<"chunk_vector", "title_vector">>}}

InitQueries == InitWith(EnvQueries)

NextQueries ==
    \/ Idle /\ \E a \in ArgsQueries : ClientHybridSearch(a)
    \/ \E r \in BackendMain : BackendCall(r)
    \/ Step

SpecQueries == InitQueries /\ [][NextQueries]_vars

\* the vector queries of the backend call that was composed
SentQueries == search_kwargs.vector_queries

\* the backend call of a direct hybrid_search call carries vector queries
QueriesComposed ==
    tool = "client" /\ search_kwargs # EmptyMap /\ "vector_queries" \in DOMAIN search_kwargs

\* the rewrites the caller gave at position i of vector_rewrites, None beyond the list
RewritesAt(i) == IF i <= Len(args.vector_rewrites) THEN args.vector_rewrites[i] ELSE NULL

\* the query-level rewrites are copied onto the i-th vector query
CopiesQueryRewrites(i) ==
    /\ effective_query_type(args, defaults) = "semantic"
    /\ effective_query_rewrites(args, defaults) \notin {NULL, ""}
    /\ args.search_text \notin BlankTexts
    /\ Lower(SentQueries[i].text) = Lower(Strip(args.search_text))

\* C21: the query_rewrites of vector query i is the caller's i-th per-vector
\* rewrites when supplied and non-empty (a shorter list is never extended by its
\* last value); otherwise the query-level effective rewrites if and only if the
\* query type is "semantic", rewrites are in effect, a lexical query is present
\* and the vector text equals it ignoring case; otherwise null
C21_PerVectorRewrites ==
    QueriesComposed
        => \A i \in 1..Len(SentQueries) :
              SentQueries[i].query_rewrites =
                  IF RewritesAt(i) \notin {NULL, ""} THEN RewritesAt(i)
                  ELSE IF CopiesQueryRewrites(i) THEN effective_query_rewrites(args, defaults)
                  ELSE NULL

\* a non-semantic call whose first per-vector rewrites is the empty string sent
\* the empty string, not null, for its first vector query
C21_Witness ==
    /\ QueriesComposed /\ pc = "backend"
    /\ args.query_type = NULL
    /\ args.vector_texts = <<"embedded">>
    /\ args.vector_rewrites = <<"">>
    /\ SentQueries[1].query_rewrites = ""

\* the positions of vector_texts that hold a non-blank text
NonBlankPositions == {i \in 1..Len(args.vector_texts) : args.vector_texts[i] \notin BlankTexts}

\* the position in vector_texts of the text of the j-th vector query
OriginalPosition(j) ==
    CHOOSE i \in NonBlankPositions : Cardinality({m \in NonBlankPositions : m <= i}) = j

\* C28: the k, weight and rewrites applied to a vector query are those the caller
\* supplied at the position of that query's text in vector_texts, also when
\* blank texts are dropped: a dropped text never shifts the per-vector values of
\* the texts that follow it
C28_ValuesFollowTheirText ==
    QueriesComposed
    => \A j \in 1..Len(SentQueries) :
          LET p == OriginalPosition(j)
          IN  /\ (p <= Len(args.vector_ks) /\ args.vector_ks[p] \notin {NoneNum, 0})
                    => SentQueries[j].k_nearest_neighbors = args.vector_ks[p]
              /\ (p <= Len(args.vector_weights) /\ args.vector_weights[p] \notin {NoneNum, 0})
                    => SentQueries[j].weight = args.vector_weights[p]
              /\ (p <= Len(args.vector_rewrites) /\ args.vector_rewrites[p] \notin {NULL, ""})
                    => SentQueries[j].query_rewrites = args.vector_rewrites[p]

\* a blank text followed by a real one, with k 40 for the first position and 60
\* for the second: the only vector query was sent with k 40
C28_Witness ==
    /\ QueriesComposed /\ pc = "backend"
    /\ args.vector_texts = <<"  ", "embedded">>
    /\ args.vector_ks = <<40, 60>>
    /\ Len(SentQueries) = 1
    /\ SentQueries[1].text = "embedded"
    /\ SentQueries[1].k_nearest_neighbors = 40

\* the vector fields of the call, else the configured ones, joined by commas;
\* "text_vector" when there is none
ExpectedVectorFields ==
    LET chosen == IF args.vector_fields # <<>> THEN args.vector_fields
                  ELSE defaults.default_vector_fields
    IN  IF chosen = <<>> THEN "text_vector" ELSE JoinComma(chosen)

\* C29: a backend call that carries vector_queries has exactly one vector query
\* per non-blank vector text, in the caller's order, each with the trimmed,
\* non-empty text, all with the same fields value (the effective vector fields
\* joined by commas, "text_vector" when none is given or configured); the
\* vector_ks and vector_weights of the applied echo have the length of
\* vector_queries and equal, position by position, the k and weight sent
C29_OneQueryPerText ==
    QueriesComposed
    => /\ Len(SentQueries) = Cardinality(NonBlankPositions)
       /\ \A j \in 1..Len(SentQueries) :
            /\ SentQueries[j].text = Strip(args.vector_texts[OriginalPosition(j)])
            /\ SentQueries[j].text \notin {"", "  ", " firmware "}
            /\ SentQueries[j].fields = ExpectedVectorFields
       /\ args.vector_fields = <<"chunk_vector", "title_vector">>
            => \A j \in 1..Len(SentQueries) :
                  SentQueries[j].fields = "chunk_vector,title_vector"
       /\ DirectCallReturned
            => /\ Len(payload.applied.vector_ks) = Len(SentQueries)
               /\ Len(payload.applied.vector_weights) = Len(SentQueries)
               /\ \A j \in 1..Len(SentQueries) :
                    /\ payload.applied.vector_ks[j] = SentQueries[j].k_nearest_neighbors
                    /\ payload.applied.vector_weights[j] = SentQueries[j].weight

\* a padded text after a blank one, no vector fields given or configured: one
\* vector query with the trimmed text and the fields "text_vector", echoed with
\* one k and one weight
C29_Witness ==
    /\ QueriesComposed /\ DirectCallReturned
    /\ args.vector_texts = <<"  ", " firmware ">>
    /\ args.vector_fields = <<>> /\ defaults.default_vector_fields = <<>>
    /\ Len(SentQueries) = 1
    /\ SentQueries[1].text = "firmware"
    /\ SentQueries[1].fields = "text_vector"
    /\ Len(payload.applied.vector_ks) = 1

-----------------------------------------------------------------------------
(* Caption shaping: direct calls whose backend rows carry caption arrays of *)
(* both styles, with and without caption text and highlight text            *)

\* the longest caption array of a row
MaxCaptions == 2

\* a caption entry: attribute-style or mapping-style, its text and its highlights
\* absent (None), blank, or present
CaptionEntries ==
    {[style |-> st, text |-> tx, highlights |-> hl] :
        st \in {"attr", "map"},
        tx \in {NULL, "  ", " chunk "},
        hl \in {NULL, "", "Gamma"}}

\* a row with a caption array, and a row without the key
RowWithCaptions(captions) == [chunk |-> "Beta"] @@ ("@search.captions" :> captions)

RowsCaptioned ==
    {Row2} \cup {RowWithCaptions(c) : c \in SeqsUpTo(CaptionEntries, MaxCaptions)}

BackendCaptioned ==
    {BackendFailure}
    \cup {[raises |-> FALSE, rows |-> <<row>>, count |-> 1, facets |-> NULL] : row \in RowsCaptioned}

ArgsCaptioned ==
    {[BaseArgs EXCEPT !.captions = cap, !.include_scores = sc] :
        cap \in {NoneAtoms, <<"extractive">>, <<"extractive", "|", "highlight-", "true">>,
                 <<"extractive", "|", "highlight-", "false">>},
        sc \in BOOLEAN}

InitCaptioned == InitWith({BaseEnv})

NextCaptioned ==
    \/ Idle /\ \E a \in ArgsCaptioned : ClientHybridSearch(a)
    \/ \E r \in BackendCaptioned : BackendCall(r)
    \/ Step

SpecCaptioned == InitCaptioned /\ [][NextCaptioned]_vars

\* the caption array of a row, empty when the row has none
CaptionsOf(row) ==
    IF "@search.captions" \in DOMAIN row THEN row["@search.captions"] ELSE <<>>

\* a caption text or highlight text, trimmed; None counts as empty
Trimmed(text) == IF text \in BlankTexts THEN "" ELSE Strip(text)

\* the caption the first entry gives: its highlight text when highlighting was
\* requested and that text is non-empty, else its caption text
FirstCaption(row, highlight) ==
    IF highlight /\ Trimmed(CaptionsOf(row)[1].highlights) # ""
    THEN Trimmed(CaptionsOf(row)[1].highlights)
    ELSE Trimmed(CaptionsOf(row)[1].text)

\* C24: a shaped item has an "@search.caption" key only if captions were
\* requested and the row's first caption entry has usable text; the value is that
\* entry's highlight text when highlighting was requested and the highlight text
\* is non-empty, otherwise the entry's caption text; highlight text is never used
\* when highlighting was not requested, later entries are never used, and the
\* style of the entry (attributes or mapping) makes no difference
C24_CaptionFromFirstEntry ==
    DirectCallReturned
    => \A i \in 1..Len(payload.items) :
          LET row == results_page.rows[i]
              item == payload.items[i]
              requested == args.captions \notin {NoneAtoms, <<>>}
              highlight == requested /\ args.captions = <<"extractive", "|", "highlight-", "true">>
          IN  /\ "@search.caption" \in DOMAIN item
                    <=> /\ requested
                        /\ CaptionsOf(row) # <<>>
                        /\ FirstCaption(row, highlight) # ""
              /\ "@search.caption" \in DOMAIN item
                    => item["@search.caption"] = FirstCaption(row, highlight)

\* highlighting was not requested and the first entry has both texts: the item
\* carries the caption text, not the highlight
C24_Witness ==
    /\ DirectCallReturned
    /\ args.captions = <<"extractive">>
    /\ Len(CaptionsOf(results_page.rows[1])) = 2
    /\ CaptionsOf(results_page.rows[1])[1].style = "attr"
    /\ CaptionsOf(results_page.rows[1])[1].highlights = "Gamma"
    /\ CaptionsOf(results_page.rows[1])[1].text = " chunk "
    /\ payload.items[1]["@search.caption"] = "chunk"

-----------------------------------------------------------------------------
(* The applied echo against the backend call: direct calls, lexical-only,   *)
(* vector-only and hybrid, that give or leave out each optional argument    *)

ArgsEcho ==
    {[BaseArgs EXCEPT !.search_text = tv[1], !.vector_texts = tv[2],
                      !.query_type = qt, !.filter_expression = fo[1], !.order_by = fo[2],
                      !.skip = sk, !.debug = dv[1], !.vector_filter_mode = dv[2],
                      !.select_fields = sel, !.facets = fa] :
        tv \in {<<" firmware ", <<>>>>, <<"", <<"embedded">>>>, <<" firmware ", <<"embedded">>>>},
        qt \in {NULL, "semantic"},
        fo \in {<<NULL, <<>>>>, <<"Location eq 'HQ'", <<"title">>>>},
        sk \in {NoneNum, 0, 5},
        dv \in {<<NULL, NULL>>, <<"queryRewrites", "preFilter">>},
        sel \in {<<>>, <<"chunk">>},
        fa \in {NoFacets, FacetList(<< <<"Location">> >>)}}

InitEcho == InitWith({BaseEnv, [BaseEnv EXCEPT !.AZURE_SEARCH_SELECT_FIELDS = <<>>]})

NextEcho ==
    \/ Idle /\ \E a \in ArgsEcho : ClientHybridSearch(a)
    \/ \E r \in BackendMain : BackendCall(r)
    \/ Step

SpecEcho == InitEcho /\ [][NextEcho]_vars

\* the optional arguments that go by the same name in the backend call and in the echo
EchoedKeys ==
    {"search_mode", "search_fields", "query_type", "query_language", "query_rewrites",
     "select", "facets", "filter", "order_by", "vector_filter_mode", "skip", "debug"}

\* the value that stands for None under a key of the echo
NoValue(key) ==
    IF key \in {"search_fields", "select", "facets", "order_by"} THEN <<>>
    ELSE IF key = "skip" THEN NoneNum
    ELSE NULL

\* the echo carries a value under the key (an entry holding None counts as absent)
InEcho(key) == key \in DOMAIN payload.applied /\ payload.applied[key] # NoValue(key)

\* C25: the applied echo stays in sync with the backend call: each optional
\* argument appears in the echo if and only if it was attached to the backend
\* call, with the value that was sent, and the vector fields, k values and weights
\* of the echo are those of the vector queries sent; for lexical-only,
\* vector-only and hybrid calls
C25_EchoInSync ==
    DirectCallReturned
    => /\ \A key \in EchoedKeys :
            /\ InEcho(key) <=> key \in DOMAIN search_kwargs
            /\ InEcho(key) => payload.applied[key] = search_kwargs[key]
       /\ "vector_ks" \in DOMAIN payload.applied <=> "vector_queries" \in DOMAIN search_kwargs
       /\ "vector_queries" \in DOMAIN search_kwargs
            => /\ Len(payload.applied.vector_ks) = Len(search_kwargs.vector_queries)
               /\ Len(payload.applied.vector_weights) = Len(search_kwargs.vector_queries)
               /\ \A i \in 1..Len(search_kwargs.vector_queries) :
                    /\ search_kwargs.vector_queries[i].fields = payload.applied.vector_fields
                    /\ search_kwargs.vector_queries[i].k_nearest_neighbors
                         = payload.applied.vector_ks[i]
                    /\ search_kwargs.vector_queries[i].weight = payload.applied.vector_weights[i]

\* a lexical call with a filter and an order-by returned: both were sent to the
\* backend and neither is in the echo
C25_Witness ==
    /\ DirectCallReturned
    /\ args.search_text = " firmware " /\ args.vector_texts = <<>>
    /\ args.filter_expression = "Location eq 'HQ'" /\ args.order_by = <<"title">>
    /\ {"filter", "order_by"} \subseteq DOMAIN search_kwargs
    /\ search_kwargs.filter = "Location eq 'HQ'"
    /\ search_kwargs.order_by = <<"title">>
    /\ "filter" \notin DOMAIN payload.applied
    /\ "order_by" \notin DOMAIN payload.applied

-----------------------------------------------------------------------------
(* Search mode of semantic calls: processes with the rewrites variable unset, *)
(* empty or set, and calls that give rewrites or not                          *)

EnvSemantic ==
    {[BaseEnv EXCEPT !.AZURE_SEARCH_QUERY_TYPE = qt,
                     !.AZURE_SEARCH_SEARCH_MODE = sm,
                     !.AZURE_SEARCH_QUERY_REWRITES = qr] :
        qt \in {NULL, "semantic"},
        sm \in {NULL, "all", "Any"},
        qr \in {NULL, "", "generative|count-3"}}

ArgsSemantic ==
    {[BaseArgs EXCEPT !.search_text = tv[1], !.vector_texts = tv[2],
                      !.query_type = qt, !.search_mode = sm, !.query_rewrites = qr] :
        tv \in {<<" firmware ", <<>>>>, <<" firmware ", <<"Firmware">>>>, <<"  ", <<"Firmware">>>>},
        qt \in {NULL, "semantic", "simple"},
        sm \in {NULL, "all", "ALL", "any"},
        qr \in {NULL, "", "  ", " generative|count-7 "}}

InitSemantic == InitWith(EnvSemantic)

NextSemantic ==
    \/ Idle /\ \E a \in ArgsSemantic : ClientHybridSearch(a)
    \/ \E r \in BackendMain : BackendCall(r)
    \/ Step

SpecSemantic == InitSemantic /\ [][NextSemantic]_vars

\* C27: for every hybrid_search call with lexical text whose effective query type
\* is "semantic", the search_mode sent to the backend is "any", also when the
\* caller gives no rewrites and none is configured, because the effective rewrites
\* are never empty (the process default falls back to "generative|count-5"): no
\* semantic call reaches the backend with search_mode "all"
C27_SemanticModeAlwaysAny ==
    /\ defaults.default_query_rewrites \notin {NULL, ""}
    /\ (tool = "client" /\ search_kwargs # EmptyMap
           /\ args.search_text \notin BlankTexts /\ SemanticByCallOrDefault)
          => /\ search_kwargs.search_mode = "any"
             /\ search_kwargs.query_rewrites \notin {NULL, ""}
             /\ (args.query_rewrites \in BlankTexts
                    /\ defaults.default_query_rewrites = "generative|count-5")
                  => search_kwargs.query_rewrites = "generative|count-5"

\* a semantic lexical call asking for mode "all", without rewrites, in a process
\* whose rewrites variable is empty and whose default mode is "all", sent "any"
C27_Witness ==
    /\ tool = "client" /\ pc = "backend"
    /\ args.search_text = " firmware "
    /\ args.query_type = "semantic" /\ args.search_mode = "all"
    /\ args.query_rewrites = NULL
    /\ defaults.default_search_mode = "all"
    /\ defaults.default_query_rewrites = "generative|count-5"
    /\ search_kwargs.search_mode = "any"
    /\ search_kwargs.query_rewrites = "generative|count-5"

====
